---- MODULE Spec2Model ----
(***************************************************************************)
(* ARK Touch-Up API: the reference-token reconciliation protocol.          *)
(*                                                                         *)
(* The model follows the most complete variant of the service              *)
(* (src/unnamed/part_002, "ark-touchup-api/3.1"): link issuance            *)
(* (POST /api/ark/create-payment-link) and the reconciliation cascade      *)
(* (GET /api/ark/verify), run by concurrent request handlers that share    *)
(* the in-memory `sessions` map and talk to the payment processor.         *)
(*                                                                         *)
(* Encoding.                                                               *)
(*  - Reference tokens, order ids, link ids, payment ids and locations are *)
(*    positive integers; 0 stands for JavaScript's falsy "no value"        *)
(*    ('' / null / undefined).                                             *)
(*  - JavaScript numbers are records [k, v]: k = "num" with v the value in *)
(*    thousandths of a dollar (so that round2 is not the identity),        *)
(*    k = "nan", k = "inf", k = "ninf"; a request field can also be        *)
(*    k = "undef" (absent) or k = "str" (a non-numeric string).            *)
(*    Arithmetic is exact decimal arithmetic: binary floating-point        *)
(*    representation error of Math.round(n * 100) is not modelled.         *)
(*  - A handler step is the code between two awaits. A remote read        *)
(*    (getPaymentLink, listLocations, searchOrders, retrieveOrder,         *)
(*    getPayment) and the code that consumes its response are one step;    *)
(*    createPaymentLink is two steps, the processor's effect and the       *)
(*    handler's continuation, so that other handlers can run in between.   *)
(*    Every remote call can fail (throw) whenever it is made.              *)
(***************************************************************************)
EXTENDS Integers, Sequences, FiniteSets, TLC

\* ------------------------------------------------------------------ bounds
MaxTokens == 2        \* reference tokens this process lifetime can mint
MaxVerifyTokens == 1  \* of these, tokens minted in the runs that also verify
NumHandlers == 2      \* request handlers in flight at the same time
NumLocations == 2     \* locations the processor lists, in listLocations order

\* ------------------------------------------------------- program constants
MIN_PRICE == 120      \* dollars
MIN_MINUTES == 60     \* minutes; the default of the configured minimum
MILLS == 10 * 100     \* model unit: thousandths of a dollar per dollar

Tokens == 1..MaxTokens
OldTok == MaxTokens + 1          \* a token minted in an earlier process lifetime
Refs == 0..OldTok                \* what a caller can pass as ref (0: none)
Handlers == 1..NumHandlers
Locations == 1..NumLocations
PreOrders == 1..2                \* ids of orders that exist before start-up
OrderIds == 1..(2 + MaxTokens)   \* pre-existing orders, then one per issuance
NoOrderId == 2 + MaxTokens + 1   \* an id the processor does not know
LinkIdOf(o) == NoOrderId + o     \* the id of the payment link created with order o
LinkIds == {LinkIdOf(o) : o \in OrderIds}

\* ------------------------------------------------------ JavaScript numbers
Num(v) == [k |-> "num", v |-> v]
NaN == [k |-> "nan", v |-> 0]
Inf == [k |-> "inf", v |-> 0]
NegInf == [k |-> "ninf", v |-> 0]
Undef == [k |-> "undef", v |-> 0]
Str == [k |-> "str", v |-> 0]     \* a non-numeric string such as "abc"
Dollars(d) == Num(d * MILLS)

\* x ?? y
Nullish(x, y) == IF x.k = "undef" THEN y ELSE x

\* Number(x)
ToNumber(x) == IF x.k \in {"undef", "str"} THEN NaN ELSE x

\* truthiness of a value: undefined, NaN and 0 are falsy; "abc" is truthy
Truthy(x) == ~(x.k \in {"undef", "nan"} \/ (x.k = "num" /\ x.v = 0))

\* x || y
OrElse(x, y) == IF Truthy(x) THEN x ELSE y

\* Math.round(x * 100) for x in thousandths: cents, ties towards +Infinity
RoundCents(x) == IF x.k = "num" THEN Num((x.v + 5) \div 10) ELSE x

\* x / 100 for x in cents, back to thousandths of a dollar
CentsToPrice(x) == IF x.k = "num" THEN Num(x.v * 10) ELSE x

\* Math.max(a, b)
MathMax(a, b) ==
    IF a.k = "nan" \/ b.k = "nan" THEN NaN
    ELSE IF a.k = "inf" \/ b.k = "inf" THEN Inf
    ELSE IF a.k = "ninf" THEN b
    ELSE IF b.k = "ninf" THEN a
    ELSE IF a.v >= b.v THEN a ELSE b

\* Number.isFinite(x)
IsFinite(x) == x.k = "num"

\* const round2 = (n) => Math.round(Number(n || 0) * 100) / 100;
round2(n) == CentsToPrice(RoundCents(ToNumber(OrElse(n, Num(0)))))

\* ------------------------------------------------------------------- state
VARIABLES
    sessions,      \* const sessions = new Map(): ref -> {orderId, linkId, at}
    orders,        \* processor: order id -> order
    links,         \* processor: payment-link id -> link
    expectedLoc,   \* process.env.SQUARE_LOCATION_ID (0: not configured)
    minMinutes,    \* const MIN_MINUTES = Number(process.env.MIN_MINUTES || '60')
    minted,        \* how many reference tokens randomUUID() has produced
    hs             \* request handlers: position and locals of each

vars == <<sessions, orders, links, expectedLoc, minMinutes, minted, hs>>

NoSession == [present |-> FALSE, orderId |-> 0, linkId |-> 0, at |-> 0]
NoOrder ==
    [exists |-> FALSE, state |-> "-", loc |-> 0, ref |-> 0, pay |-> "NONE",
     age |-> 0, amount |-> 0]
NoRedirect ==
    [ref |-> 0, orderId |-> 0, minutes |-> Undef, price |-> Undef, currency |-> "-"]
NoLink == [exists |-> FALSE, orderId |-> 0, visible |-> FALSE, redirect |-> NoRedirect]
NoBody == [displayMinutes |-> Undef, totalPrice |-> Undef, subtotal |-> Undef]
NoQuery == [ref |-> 0, orderId |-> 0]
NoResult == [ok |-> FALSE, linkId |-> 0, orderId |-> 0]
NoSnap == [state |-> "-", loc |-> 0, ref |-> 0, paymentId |-> 0]

\* A response: HTTP status and the JSON payload, absent fields as "-" / 0 / Undef;
\* locations, cache, orders and payments are the fields of the debug snapshot.
NoResp ==
    [status |-> 0, ok |-> "-", error |-> "-", state |-> "-", orderId |-> 0,
     matchesRef |-> "-", paymentStatus |-> "-", paymentId |-> 0, ref |-> 0,
     orderLocation |-> 0, expected |-> 0, url |-> 0, charge |-> Undef,
     minutes |-> Undef, locations |-> <<>>, cache |-> NoSession, orders |-> <<>>,
     payments |-> <<>>]

\* A handler: the request (body or query), the handler's local variables, the
\* remote calls it has made so far, and its response once pc = "done".
\* seen is the order id the cache held when the verify call began, orderAtStart the
\* order that carried the call's ref at the processor at that moment (0: none).
\* issuedOid is the order id returned by the issuance of the call's ref whose
\* response was sent in the step before the verify call began (0: none).
\* found, j and payments are the locals of the debug route: the orders the search
\* returned, the position of the payment loop, and the payments collected.
\* before/beforeCalls/steady record the previous verify call of the same query, for
\* comparing two consecutive calls: its response, its remote calls, and whether
\* since it began no remote call of the two failed and the processor's state did
\* not change.
IdleHandler ==
    [kind |-> "idle", pc |-> "idle", body |-> NoBody, query |-> NoQuery,
     ref |-> 0, minutes |-> Undef, charge |-> Undef, amountCents |-> Undef,
     oid |-> 0, i |-> 0, matches |-> <<>>, order |-> NoSnap, payment |-> "-",
     result |-> NoResult, calls |-> <<>>, resp |-> NoResp, seen |-> 0,
     orderAtStart |-> 0, issuedOid |-> 0, found |-> <<>>, j |-> 0,
     payments |-> <<>>,
     before |-> NoResp, beforeCalls |-> <<>>, other |-> NoResp,
     otherQuery |-> NoQuery, steady |-> FALSE]

\* other/otherQuery record, in the same way, the previous verify call with the same
\* orderId and another ref: its response and its query.

\* A remote call: the operation, its argument, whether it succeeded, what it returned.
Call(api, arg, ok, out) == [api |-> api, arg |-> arg, ok |-> ok, out |-> out]
Bool(b) == IF b THEN "true" ELSE "false"
InFlight(k) == hs[k].pc \notin {"idle", "done"}

\* A new request is taken by the lowest free handler (handlers are interchangeable).
Free(h) == ~InFlight(h) /\ \A k \in Handlers : k < h => InFlight(k)

\* A response that has been sent leaves its handler: the finished handler's record
\* is visible in the state that follows its last step, and the slot is free again
\* with the next step anyone takes.
Sweep(H) == [k \in Handlers |-> IF H[k].pc = "done" THEN IdleHandler ELSE H[k]]

\* A processor-side change: verify calls in flight no longer run against one
\* unchanged processor state.
Dirty(H) == [k \in Handlers |-> [H[k] EXCEPT !.steady = FALSE]]

\* ------------------------------------------------------------ link issuance
\* let { displayMinutes = 60, totalPrice, subtotal } = req.body || {};
\* const minutes = Math.max(MIN_MINUTES, Number(displayMinutes || 0) || MIN_MINUTES);
minutesOf(body) ==
    LET displayMinutes == IF body.displayMinutes.k = "undef" THEN Num(60)
                          ELSE body.displayMinutes
    IN  MathMax(Num(minMinutes),
                OrElse(ToNumber(OrElse(displayMinutes, Num(0))), Num(minMinutes)))

\* const rawPrice = Number(subtotal ?? totalPrice ?? 0) || 0;
rawPriceOf(body) ==
    OrElse(ToNumber(Nullish(body.subtotal, Nullish(body.totalPrice, Num(0)))), Num(0))

\* Mutant: the charge without the minimum-price floor.
chargeOfNoFloor(body) == round2(rawPriceOf(body))

\* const charge = Math.max(MIN_PRICE, round2(rawPrice)); // dollars
chargeOf(body) == MathMax(Dollars(MIN_PRICE), round2(rawPriceOf(body)))

\* const amountCents = Math.round(charge * 100);
amountCentsOf(body) == RoundCents(chargeOf(body))

\* Mutant: the amount is never rejected.
InvalidAmountNever(cents) == FALSE

\* if (!Number.isFinite(amountCents) || amountCents <= 0) -> INVALID_AMOUNT
InvalidAmount(cents) == ~IsFinite(cents) \/ cents.v <= 0

\* sendErr(res, tag, err): status 200, { ok: false, error: tag }
sendErr(tag) == [NoResp EXCEPT !.status = 200, !.ok = "false", !.error = tag]

\* Mutant: the token is minted and written to the store before the amount is
\* rejected.
RejectAmountAfterStore(h, me) ==
    /\ minted < MaxTokens
    /\ minted' = minted + 1
    /\ sessions' = [sessions EXCEPT ![minted + 1] =
            [present |-> TRUE, orderId |-> 0, linkId |-> 0, at |-> minted]]
    /\ hs' = [Sweep(hs) EXCEPT ![h] =
            [me EXCEPT !.pc = "done", !.resp = sendErr("INVALID_AMOUNT")]]

\* return res.status(200).json({ ok: false, error: 'INVALID_AMOUNT' }), ahead of
\* randomUUID() and of every await: nothing is minted, stored or sent.
RejectAmount(h, me) ==
    /\ hs' = [Sweep(hs) EXCEPT ![h] =
            [me EXCEPT !.pc = "done",
                       !.resp = [NoResp EXCEPT !.status = 200, !.ok = "false",
                                               !.error = "INVALID_AMOUNT"]]]
    /\ UNCHANGED <<minted, sessions>>

\* Mutant: randomUUID() returns the token it returned before.
randomUUIDRepeats == IF minted = 0 THEN 1 ELSE minted

\* const ref = randomUUID(): a token no earlier call has returned.
randomUUID == minted + 1

\* Mutant: the link is created with the bare booking page as redirect, the token
\* to be added by a later update (as in the variants before 3.1).
redirectOfBookingBase(me) == NoRedirect

\* Mutant: the redirect carries the requested price, totalPrice first (as in
\* version 3.0), not the charge.
redirectOfRequestedPrice(me) ==
    [ref |-> me.ref, orderId |-> 0, minutes |-> me.minutes,
     price |-> ToNumber(Nullish(me.body.totalPrice, Nullish(me.body.subtotal, Num(0)))),
     currency |-> "CAD"]

\* const redirect = new URL(bookingBase); searchParams.set('ref' | 'minutes' |
\* 'price' | 'currency'): built from the handler's locals ahead of the call.
redirectOf(me) ==
    [ref |-> me.ref, orderId |-> 0, minutes |-> me.minutes, price |-> me.charge,
     currency |-> "CAD"]

\* Mutant: the order is created without a reference field.
createBodyNoReference(me) ==
    [referenceId |-> 0, amount |-> me.amountCents, redirectUrl |-> redirectOf(me)]

\* const createBody = { order: { referenceId: ref, lineItems: [{ basePriceMoney:
\* { amount: amountCents } }] }, checkoutOptions: { redirectUrl } }
createBody(me) ==
    [referenceId |-> me.ref, amount |-> me.amountCents, redirectUrl |-> redirectOf(me)]

\* The handler up to `await createPaymentLink(createBody)`: floors, validation,
\* randomUUID(), the redirect target and the request body.
CreateStart(h, body) ==
    /\ Free(h)
    /\ LET cents == amountCentsOf(body)
           ref == randomUUID
           me == [IdleHandler EXCEPT !.kind = "create", !.body = body,
                    !.minutes = minutesOf(body), !.charge = chargeOf(body),
                    !.amountCents = cents]
       IN  IF InvalidAmount(cents)
           THEN RejectAmount(h, me)
           ELSE /\ minted < MaxTokens
                /\ minted' = ref
                /\ hs' = [Sweep(hs) EXCEPT ![h] =
                            [me EXCEPT !.pc = "createLink", !.ref = ref]]
                /\ UNCHANGED sessions
    /\ UNCHANGED <<orders, links, expectedLoc, minMinutes>>

\* The processor serves createPaymentLink(createBody): the call fails, or the
\* processor creates the order (reference field = ref, one line item of
\* amountCents) and its link with the redirect that was sent. The response may
\* leave out the order id.
ProcCreateLink(h, ok) ==
    /\ hs[h].pc = "createLink"
    /\ LET me == hs[h]
           req == createBody(me)
           id == 2 + me.ref
           sent == Append(me.calls, Call("createLink", req.amount, ok, 0))
       IN  IF ~ok
           THEN /\ hs' = [Sweep(hs) EXCEPT ![h] =
                        [me EXCEPT !.pc = "created", !.result = NoResult,
                                   !.calls = sent]]
                /\ UNCHANGED <<orders, links>>
           ELSE \E visible \in BOOLEAN :
                /\ orders' = [orders EXCEPT ![id] =
                        [exists |-> TRUE, state |-> "OPEN",
                         loc |-> IF expectedLoc = 0 THEN 1 ELSE expectedLoc,
                         ref |-> req.referenceId, pay |-> "NONE", age |-> 0,
                         amount |-> req.amount.v]]
                /\ links' = [links EXCEPT ![LinkIdOf(id)] =
                        [exists |-> TRUE, orderId |-> id, visible |-> visible,
                         redirect |-> req.redirectUrl]]
                /\ hs' = [Dirty(Sweep(hs)) EXCEPT ![h] =
                        [me EXCEPT !.pc = "created", !.calls = sent,
                            !.result = [ok |-> TRUE, linkId |-> LinkIdOf(id),
                                        orderId |-> IF visible THEN id ELSE 0]]]
    /\ UNCHANGED <<sessions, expectedLoc, minMinutes, minted>>

\* Mutant: a failed createPaymentLink is sent once more before giving up.
CreateFailedRetry(h, me) ==
    /\ hs' = [Sweep(hs) EXCEPT ![h] =
            IF Len(me.calls) < 2 THEN [me EXCEPT !.pc = "createLink"]
            ELSE [me EXCEPT !.pc = "done", !.resp = sendErr("CREATE_LINK_FAILED")]]
    /\ UNCHANGED sessions

\* catch (e) { return sendErr(res, 'CREATE_LINK_FAILED', e); }
CreateFailed(h, me) ==
    /\ hs' = [Sweep(hs) EXCEPT ![h] =
            [me EXCEPT !.pc = "done", !.resp = sendErr("CREATE_LINK_FAILED")]]
    /\ UNCHANGED sessions

\* After the await: orderId = link?.orderId || null; sessions.set(ref, ...);
\* respond { url, orderId, ref, charge, minutes }; a failed call goes to the catch.
CreateFinish(h) ==
    /\ hs[h].pc = "created"
    /\ LET me == hs[h]
           orderId == me.result.orderId
       IN  IF ~me.result.ok
           THEN CreateFailed(h, me)
           ELSE /\ sessions' = [sessions EXCEPT ![me.ref] =
                        [present |-> TRUE, orderId |-> orderId,
                         linkId |-> me.result.linkId, at |-> minted]]
                /\ hs' = [Sweep(hs) EXCEPT ![h] =
                        [me EXCEPT !.pc = "done",
                            !.resp = [NoResp EXCEPT !.status = 200,
                                !.url = me.result.linkId, !.orderId = orderId,
                                !.ref = me.ref, !.charge = me.charge,
                                !.minutes = me.minutes]]]
    /\ UNCHANGED <<orders, links, expectedLoc, minMinutes, minted>>

\* ------------------------------------ link issuance, version 3.0 (part_000)
\* The variant that creates the link with the bare booking page as redirect and
\* updates the redirect once the order id is known.

\* const amountCents = Math.round(Number(subtotal ?? totalPrice ?? 0) * 100);
amountCents30(body) ==
    RoundCents(ToNumber(Nullish(body.subtotal, Nullish(body.totalPrice, Num(0)))))

\* const createBody = { order: { referenceId: ref, lineItems: [{ basePriceMoney:
\* { amount: amountCents } }] }, checkoutOptions: { redirectUrl: bookingBase } }
createBody30(me) ==
    [referenceId |-> me.ref, amount |-> me.amountCents, redirectUrl |-> NoRedirect]

\* const redirect = new URL(bookingBase); ref, orderId (if any),
\* minutes = String(displayMinutes), price = String(Number(totalPrice ?? subtotal ?? 0)),
\* currency.
redirect30(me) ==
    [ref |-> me.ref, orderId |-> me.result.orderId,
     minutes |-> IF me.body.displayMinutes.k = "undef" THEN Num(60)
                 ELSE me.body.displayMinutes,
     price |-> ToNumber(Nullish(me.body.totalPrice, Nullish(me.body.subtotal, Num(0)))),
     currency |-> "CAD"]

\* return res.status(200).json({ url: link.url, orderId, ref })
Respond30(me) ==
    [me EXCEPT !.pc = "done",
               !.resp = [NoResp EXCEPT !.status = 200, !.url = me.result.linkId,
                                       !.orderId = me.result.orderId, !.ref = me.ref]]

\* Mutant: a failed updatePaymentLink reaches the outer catch.
UpdateRethrown(me) == [me EXCEPT !.pc = "done", !.resp = sendErr("CREATE_LINK_FAILED")]

\* catch (e) { console.warn('updatePaymentLink warning:', ...) }, then the response.
UpdateCaught(me) == Respond30(me)

\* The handler up to `await createPaymentLink(createBody)`: the validation of the
\* raw amount, randomUUID(), the request body with the temporary redirect.
Create30Start(h, body) ==
    /\ Free(h)
    /\ LET cents == amountCents30(body)
           ref == randomUUID
           me == [IdleHandler EXCEPT !.kind = "create30", !.body = body,
                                     !.amountCents = cents]
       IN  IF InvalidAmount(cents)
           THEN /\ hs' = [Sweep(hs) EXCEPT ![h] =
                        [me EXCEPT !.pc = "done",
                            !.resp = [NoResp EXCEPT !.status = 200, !.ok = "false",
                                                    !.error = "INVALID_AMOUNT"]]]
                /\ UNCHANGED minted
           ELSE /\ minted < MaxTokens
                /\ minted' = ref
                /\ hs' = [Sweep(hs) EXCEPT ![h] =
                            [me EXCEPT !.pc = "createLink30", !.ref = ref]]
    /\ UNCHANGED <<sessions, orders, links, expectedLoc, minMinutes>>

\* The processor serves createPaymentLink(createBody) of version 3.0.
ProcCreateLink30(h, ok) ==
    /\ hs[h].pc = "createLink30"
    /\ LET me == hs[h]
           req == createBody30(me)
           id == 2 + me.ref
           sent == Append(me.calls, Call("createLink", req.amount, ok, 0))
       IN  IF ~ok
           THEN /\ hs' = [Sweep(hs) EXCEPT ![h] =
                        [me EXCEPT !.pc = "created30", !.result = NoResult,
                                   !.calls = sent]]
                /\ UNCHANGED <<orders, links>>
           ELSE \E visible \in BOOLEAN :
                /\ orders' = [orders EXCEPT ![id] =
                        [exists |-> TRUE, state |-> "OPEN",
                         loc |-> IF expectedLoc = 0 THEN 1 ELSE expectedLoc,
                         ref |-> req.referenceId, pay |-> "NONE", age |-> 0,
                         amount |-> req.amount.v]]
                /\ links' = [links EXCEPT ![LinkIdOf(id)] =
                        [exists |-> TRUE, orderId |-> id, visible |-> visible,
                         redirect |-> req.redirectUrl]]
                /\ hs' = [Dirty(Sweep(hs)) EXCEPT ![h] =
                        [me EXCEPT !.pc = "created30", !.calls = sent,
                            !.result = [ok |-> TRUE, linkId |-> LinkIdOf(id),
                                        orderId |-> IF visible THEN id ELSE 0]]]
    /\ UNCHANGED <<sessions, expectedLoc, minMinutes, minted>>

\* After the await: a failed call goes to the outer catch; otherwise
\* sessions.set(ref, { orderId, linkId, at }), the final redirect is built, and the
\* handler awaits updatePaymentLink(link.id, ...).
Create30Finish(h) ==
    /\ hs[h].pc = "created30"
    /\ LET me == hs[h]
       IN  IF ~me.result.ok
           THEN CreateFailed(h, me)
           ELSE /\ sessions' = [sessions EXCEPT ![me.ref] =
                        [present |-> TRUE, orderId |-> me.result.orderId,
                         linkId |-> me.result.linkId, at |-> minted]]
                /\ hs' = [Sweep(hs) EXCEPT ![h] = [me EXCEPT !.pc = "updateLink30"]]
    /\ UNCHANGED <<orders, links, expectedLoc, minMinutes, minted>>

\* updatePaymentLink(link.id, { redirectUrl: redirect }), best effort: the
\* processor replaces the redirect, or the call fails and the failure is caught;
\* either way the handler responds { url, orderId, ref }.
Create30Update(h, ok) ==
    /\ hs[h].pc = "updateLink30"
    /\ LET me == hs[h]
           l == me.result.linkId
           now == [me EXCEPT !.calls = Append(@, Call("updateLink", l, ok, 0))]
       IN  /\ links' = IF ok THEN [links EXCEPT ![l].redirect = redirect30(me)]
                       ELSE links
           /\ hs' = [Sweep(hs) EXCEPT ![h] =
                        IF ok THEN Respond30(now) ELSE UpdateCaught(now)]
    /\ UNCHANGED <<sessions, orders, expectedLoc, minMinutes, minted>>

\* ------------------------------------------------------------------ verify
\* sessions.get(ref): the record, or undefined
sessionsGet(ref) == IF ref = 0 THEN NoSession ELSE sessions[ref]

\* (order.referenceId || order.reference_id) === ref
matchesRef(orderRef, ref) == orderRef # 0 /\ orderRef = ref

\* The set S of order ids as a sequence, newest (largest id) first.
RECURSIVE NewestFirst(_)
NewestFirst(S) ==
    IF S = {} THEN <<>>
    ELSE LET m == CHOOSE x \in S : \A y \in S : y <= x
         IN  <<m>> \o NewestFirst(S \ {m})

\* const since = new Date(Date.now() - 1000 * 60 * 60 * 24): the length of the
\* search window, in milliseconds.
WINDOW_MS == 1000 * 60 * 60 * 24
HOUR_MS == 1000 * 60 * 60

\* dateTimeFilter: { createdAt: { startAt: since } } for an order created `age`
\* hours before the call: createdAt >= Date.now() - WINDOW_MS (startAt is inclusive).
InWindow(age) == age * HOUR_MS <= WINDOW_MS

\* Mutant: the search has no date filter.
searchOrdersNoWindow(loc) ==
    NewestFirst({o \in OrderIds : orders[o].exists /\ orders[o].loc = loc})

\* ordersApi.searchOrders({ locationIds: [loc], createdAt >= since, all states },
\* sorted CREATED_AT DESC): the orders of one location inside the 24 h window.
searchOrders(loc) ==
    NewestFirst({o \in OrderIds : orders[o].exists /\ orders[o].loc = loc
                                  /\ InWindow(orders[o].age)})

\* Mutant: no order's reference field ever matches.
MatchesOfNone(found, ref) == <<>>

\* for (const o of result.orders || []) if (referenceId === ref) matches.push(o);
MatchesOf(found, ref) == SelectSeq(found, LAMBDA o : matchesRef(orders[o].ref, ref))

\* listAllLocations: (result.locations || []).map(l => l.id)
listAllLocations == [i \in 1..NumLocations |-> i]

\* Mutant: the order is retrieved whether or not an id was found.
AfterSearchRetrieve(me, oid) == [me EXCEPT !.oid = oid, !.pc = "retrieveOrder"]

\* if (!oid) return ORDER_NOT_FOUND; otherwise go on to retrieveOrder(oid).
AfterSearch(me, oid) ==
    IF oid = 0
    THEN [me EXCEPT !.oid = oid, !.pc = "done",
                    !.resp = [NoResp EXCEPT !.status = 200, !.ok = "false",
                                !.error = "ORDER_NOT_FOUND", !.ref = me.query.ref]]
    ELSE [me EXCEPT !.oid = oid, !.pc = "retrieveOrder"]

\* Mutant: the search is skipped.
AfterLinkNoSearch(me, oid) == AfterSearch(me, oid)

\* Mutant: the bounded search runs whenever a ref is given, found order id or not.
AfterLinkAlwaysSearch(me, oid) ==
    IF me.query.ref # 0
    THEN [me EXCEPT !.oid = oid, !.pc = "listLocations"]
    ELSE AfterSearch(me, oid)

\* if (!oid && ref) the bounded search starts with listAllLocations.
AfterLink(me, oid) ==
    IF oid = 0 /\ me.query.ref # 0
    THEN [me EXCEPT !.oid = oid, !.pc = "listLocations"]
    ELSE AfterSearch(me, oid)

\* Mutant: a request without identifiers is not rejected.
MissingIdsNever(ref, orderId) == FALSE

\* if (!ref && !orderId)
MissingIds(ref, orderId) == ref = 0 /\ orderId = 0

\* The order at the processor whose reference field is ref (0: none).
OrderByRef(ref) ==
    IF \E o \in OrderIds : orders[o].exists /\ matchesRef(orders[o].ref, ref)
    THEN CHOOSE o \in OrderIds : orders[o].exists /\ matchesRef(orders[o].ref, ref)
    ELSE 0

\* Mutant: the cache is consulted before the orderId of the request.
CachedOidCacheFirst(ref, orderId) ==
    IF sessionsGet(ref).orderId # 0 THEN sessionsGet(ref).orderId ELSE orderId

\* Mutant: the cache is not consulted for the order id.
CachedOidNoCache(ref, orderId) == orderId

\* let oid = orderId || sessions.get(ref)?.orderId || null;
CachedOid(ref, orderId) == IF orderId # 0 THEN orderId ELSE sessionsGet(ref).orderId

\* The handler up to its first await (lines 204-214): the 400 for a request with
\* neither identifier, the direct and cache stages, and the choice of the next stage.
\* With track = "query", the call is compared with the call of the same query that
\* ended in the step before; with track = "order", with the call of the same orderId
\* and another ref; with track = "none", with no call.
\* the step before (before, steady).
VerifyStart(h, ref, orderId, track) ==
    /\ Free(h)
    /\ LET q == [ref |-> ref, orderId |-> orderId]
           chained == \E k \in Handlers : hs[k].pc = "done" /\ hs[k].kind = "verify"
                                          /\ hs[k].query = q /\ hs[k].steady
           prev == CHOOSE k \in Handlers : hs[k].pc = "done" /\ hs[k].kind = "verify"
                                           /\ hs[k].query = q /\ hs[k].steady
           paired == \E k \in Handlers : hs[k].pc = "done" /\ hs[k].kind = "verify"
                                         /\ hs[k].query.orderId = orderId /\ orderId # 0
                                         /\ hs[k].query.ref # ref /\ hs[k].steady
           peer == CHOOSE k \in Handlers : hs[k].pc = "done" /\ hs[k].kind = "verify"
                                           /\ hs[k].query.orderId = orderId /\ orderId # 0
                                           /\ hs[k].query.ref # ref /\ hs[k].steady
           issuedNow == \E k \in Handlers : hs[k].kind = "create" /\ hs[k].pc = "done"
                                            /\ hs[k].resp.url # 0 /\ hs[k].resp.ref = ref
           issuer == CHOOSE k \in Handlers : hs[k].kind = "create" /\ hs[k].pc = "done"
                                             /\ hs[k].resp.url # 0 /\ hs[k].resp.ref = ref
           me == [IdleHandler EXCEPT !.kind = "verify", !.query = q, !.steady = (track # "none"),
                    !.seen = sessionsGet(ref).orderId,
                    !.orderAtStart = OrderByRef(ref),
                    !.issuedOid = IF issuedNow THEN hs[issuer].resp.orderId ELSE 0,
                    !.before = IF track = "query" /\ chained THEN hs[prev].resp ELSE NoResp,
                    !.beforeCalls = IF track = "query" /\ chained THEN hs[prev].calls
                                    ELSE <<>>,
                    !.other = IF track = "order" /\ paired THEN hs[peer].resp ELSE NoResp,
                    !.otherQuery = IF track = "order" /\ paired THEN hs[peer].query
                                   ELSE NoQuery]
           oid == CachedOid(ref, orderId)
       IN  hs' = [Sweep(hs) EXCEPT ![h] =
                IF MissingIds(ref, orderId)
                THEN [me EXCEPT !.pc = "done",
                        !.resp = [NoResp EXCEPT !.status = 400, !.ok = "false",
                                    !.error = "MISSING_REF_OR_ORDER_ID"]]
                ELSE IF oid = 0 /\ sessionsGet(ref).linkId # 0
                THEN [me EXCEPT !.pc = "getLink"]
                ELSE AfterLink(me, oid)]
    /\ UNCHANGED <<sessions, orders, links, expectedLoc, minMinutes, minted>>

\* What getPaymentLink(linkId) answers for the order id: result?.paymentLink?.orderId
getLinkOrderId(linkId) == IF links[linkId].visible THEN links[linkId].orderId ELSE 0

\* Mutant: the write-back is not guarded by `if (oid)`.
ShouldWriteBackAlways(oid) == TRUE

\* Mutant: a recovered order id is never written back.
ShouldWriteBackNever(oid) == FALSE

\* if (oid) sessions.set(...)
ShouldWriteBack(oid) == oid # 0

\* Mutant: the write-back replaces the whole map by one holding the one record.
WriteBackNewMap(ref, oid) ==
    [t \in 1..OldTok |->
        IF t = ref THEN [sessions[t] EXCEPT !.present = TRUE, !.orderId = oid]
        ELSE NoSession]

\* Mutant: the write-back clears the link id once the order id is known.
WriteBackDropLink(ref, oid) ==
    [sessions EXCEPT ![ref] = [@ EXCEPT !.present = TRUE, !.orderId = oid,
                                        !.linkId = 0]]

\* Mutant: the write-back replaces the record (no spread of the old one).
WriteBackReplace(ref, oid) ==
    [sessions EXCEPT ![ref] = [NoSession EXCEPT !.present = TRUE, !.orderId = oid]]

\* Mutant: the write-back stores the link id in the order id field.
WriteBackLinkId(ref, oid) ==
    [sessions EXCEPT ![ref] = [@ EXCEPT !.present = TRUE,
                                        !.orderId = sessions[ref].linkId]]

\* sessions.set(ref, { ...sessions.get(ref), orderId: oid })
WriteBack(ref, oid) ==
    [sessions EXCEPT ![ref] = [@ EXCEPT !.present = TRUE, !.orderId = oid]]

\* Link inspection (lines 214-222): getPaymentLink(sessions.get(ref).linkId), the
\* write-back of a recovered order id; a failed call is caught and only logged.
VerifyGetLink(h, ok) ==
    /\ hs[h].pc = "getLink"
    /\ LET me == hs[h]
           ref == me.query.ref
           linkId == sessionsGet(ref).linkId
           oid == IF ok THEN getLinkOrderId(linkId) ELSE 0
           now == [me EXCEPT !.calls = Append(@, Call("getLink", linkId, ok, oid)),
                             !.steady = @ /\ ok]
       IN  /\ sessions' = IF ShouldWriteBack(oid) THEN WriteBack(ref, oid) ELSE sessions
           /\ hs' = [Sweep(hs) EXCEPT ![h] = AfterLink(now, oid)]
    /\ UNCHANGED <<orders, links, expectedLoc, minMinutes, minted>>

\* const locs = await listAllLocations(client);
VerifyListLocations(h, ok) ==
    /\ hs[h].pc = "listLocations"
    /\ LET now == [hs[h] EXCEPT !.calls = Append(@, Call("listLocations", 0, ok, 0)),
                               !.steady = @ /\ ok]
       IN  hs' = [Sweep(hs) EXCEPT ![h] =
                IF ~ok
                THEN [now EXCEPT !.pc = "done", !.resp = sendErr("VERIFY_EXCEPTION")]
                ELSE [now EXCEPT !.pc = "search", !.i = 1]]
    /\ UNCHANGED <<sessions, orders, links, expectedLoc, minMinutes, minted>>

\* Mutant: the loop over the locations has no break.
SearchGoesOnNoBreak(matches, i) == i < NumLocations

\* for (const loc of locationIds) { ...; if (matches.length) break; }
SearchGoesOn(matches, i) == matches = <<>> /\ i < NumLocations

\* searchOrdersByRef, one iteration of `for (const loc of locationIds)`: the query
\* of one location, the filter on the reference field, `if (matches.length) break`;
\* and, when the loop ends, `if (matches.length) oid = matches[0].id`.
searchOrdersByRef(h, ok) ==
    /\ hs[h].pc = "search"
    /\ LET me == hs[h]
           loc == listAllLocations[me.i]
           matches == me.matches \o MatchesOf(searchOrders(loc), me.query.ref)
           now == [me EXCEPT !.calls = Append(@, Call("searchOrders", loc, ok, 0)),
                             !.steady = @ /\ ok]
       IN  hs' = [Sweep(hs) EXCEPT ![h] =
                IF ~ok
                THEN [now EXCEPT !.pc = "done", !.resp = sendErr("VERIFY_EXCEPTION")]
                ELSE IF SearchGoesOn(matches, me.i)
                THEN [now EXCEPT !.i = me.i + 1, !.matches = matches]
                ELSE AfterSearch([now EXCEPT !.matches = matches],
                                 IF matches # <<>> THEN matches[1] ELSE me.oid)]
    /\ UNCHANGED <<sessions, orders, links, expectedLoc, minMinutes, minted>>

\* The order's first tender's payment id: (order?.tenders || [])[0]?.paymentId.
\* The payment of order o has id o.
tenderPaymentId(o) == IF orders[o].pay = "NONE" THEN 0 ELSE o

\* Mutant: an OPEN order counts as paid.
OrderVerifiesOpen(state) == state \in {"COMPLETED", "OPEN"}

\* if (state === 'COMPLETED')
OrderVerifies(state) == state = "COMPLETED"

\* Mutant: no payment fallback, the payment's status is never accepted.
PaymentVerifiesNever(status) == FALSE

\* if (payment?.status === 'COMPLETED')
PaymentVerifies(status) == status = "COMPLETED"

\* Mutant: no location check (as in the variants before the check was added).
LocationMismatchOff(loc) == FALSE

\* if (order?.locationId && expectedLoc && order.locationId !== expectedLoc)
LocationMismatch(loc) == loc # 0 /\ expectedLoc # 0 /\ loc # expectedLoc

\* retrieveOrder, the location check and the order-state decision (lines 233-252).
\* retrieveOrder fails for an id the processor does not know.
VerifyRetrieveOrder(h, ok) ==
    /\ hs[h].pc = "retrieveOrder"
    /\ LET me == hs[h]
           oid == me.oid
           ref == me.query.ref
           known == oid \in OrderIds /\ orders[oid].exists
           order == IF known THEN orders[oid] ELSE NoOrder
           snap == [state |-> order.state, loc |-> order.loc, ref |-> order.ref,
                    paymentId |-> IF known THEN tenderPaymentId(oid) ELSE 0]
           now == [me EXCEPT !.calls = Append(@, Call("retrieveOrder", oid, ok /\ known, 0)),
                             !.steady = @ /\ ok]
           got == [now EXCEPT !.order = snap]
       IN  hs' = [Sweep(hs) EXCEPT ![h] =
                IF ~ok \/ ~known
                THEN [now EXCEPT !.pc = "done", !.resp = sendErr("VERIFY_EXCEPTION")]
                ELSE IF LocationMismatch(order.loc)
                THEN [got EXCEPT !.pc = "done",
                        !.resp = [NoResp EXCEPT !.status = 200, !.ok = "false",
                            !.error = "LOCATION_MISMATCH", !.orderLocation = order.loc,
                            !.expected = expectedLoc, !.orderId = oid]]
                ELSE IF OrderVerifies(order.state)
                THEN [got EXCEPT !.pc = "done",
                        !.resp = [NoResp EXCEPT !.status = 200, !.ok = "true",
                            !.state = order.state, !.orderId = oid,
                            !.matchesRef = Bool(matchesRef(order.ref, ref))]]
                ELSE IF snap.paymentId # 0
                THEN [got EXCEPT !.pc = "getPayment"]
                ELSE [got EXCEPT !.pc = "done",
                        !.resp = [NoResp EXCEPT !.status = 200, !.ok = "false",
                            !.error = "NOT_COMPLETED_YET", !.state = order.state,
                            !.orderId = oid,
                            !.matchesRef = Bool(matchesRef(order.ref, ref))]]]
    /\ UNCHANGED <<sessions, orders, links, expectedLoc, minMinutes, minted>>

\* paymentsApi.getPayment(tender.paymentId) and the payment fallback (lines 253-273).
VerifyGetPayment(h, ok) ==
    /\ hs[h].pc = "getPayment"
    /\ LET me == hs[h]
           ref == me.query.ref
           status == orders[me.order.paymentId].pay
           now == [me EXCEPT !.steady = @ /\ ok,
                    !.calls = Append(@, Call("retrievePayment", me.order.paymentId, ok, 0))]
           got == [now EXCEPT !.payment = status]
       IN  hs' = [Sweep(hs) EXCEPT ![h] =
                IF ~ok
                THEN [now EXCEPT !.pc = "done", !.resp = sendErr("VERIFY_EXCEPTION")]
                ELSE IF PaymentVerifies(status)
                THEN [got EXCEPT !.pc = "done",
                        !.resp = [NoResp EXCEPT !.status = 200, !.ok = "true",
                            !.state = me.order.state, !.paymentStatus = "COMPLETED",
                            !.orderId = me.oid, !.paymentId = me.order.paymentId,
                            !.matchesRef = Bool(matchesRef(me.order.ref, ref))]]
                ELSE [got EXCEPT !.pc = "done",
                        !.resp = [NoResp EXCEPT !.status = 200, !.ok = "false",
                            !.error = "NOT_COMPLETED_YET", !.state = me.order.state,
                            !.orderId = me.oid,
                            !.matchesRef = Bool(matchesRef(me.order.ref, ref))]]]
    /\ UNCHANGED <<sessions, orders, links, expectedLoc, minMinutes, minted>>

\* ------------------------------------------------------------------- debug
\* An order as searchOrders returned it: the fields the snapshot reports, and the
\* payment id of its first tender.
OrderSnap(o) ==
    [id |-> o, state |-> orders[o].state, locationId |-> orders[o].loc,
     referenceId |-> orders[o].ref, paymentId |-> tenderPaymentId(o)]

\* const { result } = await client.paymentsApi.getPayment(t.paymentId): result.payment
PaymentSnap(pid) == [id |-> pid, status |-> orders[pid].pay, orderId |-> pid]

\* return res.status(200).json({ env, locations, cache: sessions.get(ref) || null,
\* orders, payments })
DebugSnapshot(me) ==
    [NoResp EXCEPT !.status = 200, !.locations = listAllLocations,
                   !.cache = sessionsGet(me.query.ref),
                   !.orders = me.found, !.payments = me.payments]

\* for (const o of orders) { const t = (o.tenders || [])[0]; if (t?.paymentId) ... }
\* from position j on: the handler stops at the next order with a tender's payment
\* id, to await getPayment; with none left it responds with the snapshot.
RECURSIVE DebugPayments(_, _)
DebugPayments(me, j) ==
    IF j > Len(me.found)
    THEN [me EXCEPT !.pc = "done", !.j = j, !.resp = DebugSnapshot(me)]
    ELSE IF me.found[j].paymentId # 0
    THEN [me EXCEPT !.pc = "debugPayments", !.j = j]
    ELSE DebugPayments(me, j + 1)

\* Mutant: a failed payment lookup reaches the outer catch.
DebugCatchRethrow(me, j) ==
    [me EXCEPT !.pc = "done", !.resp = sendErr("DEBUG_EXCEPTION")]

\* catch (e) { console.warn('getPayment debug warn:', ...) }: the loop goes on.
DebugCatch(me, j) == DebugPayments(me, j)

\* Mutant: the snapshot stores the order it found in the cache.
DebugFrameCaching(h) ==
    /\ sessions' = IF hs'[h].pc = "done" /\ hs'[h].found # <<>>
                   THEN WriteBack(hs'[h].query.ref, hs'[h].found[1].id)
                   ELSE sessions
    /\ UNCHANGED <<orders, links, expectedLoc, minMinutes, minted>>

\* The debug route has no sessions.set and no call that creates or updates.
DebugFrame(h) == UNCHANGED <<sessions, orders, links, expectedLoc, minMinutes, minted>>

\* GET /api/ark/debug up to its first await: { error: 'MISSING_REF' } without a ref.
DebugStart(h, ref) ==
    /\ Free(h)
    /\ LET me == [IdleHandler EXCEPT !.kind = "debug",
                                     !.query = [ref |-> ref, orderId |-> 0]]
       IN  hs' = [Sweep(hs) EXCEPT ![h] =
                IF ref = 0
                THEN [me EXCEPT !.pc = "done",
                        !.resp = [NoResp EXCEPT !.status = 200, !.error = "MISSING_REF"]]
                ELSE [me EXCEPT !.pc = "debugLocations"]]
    /\ DebugFrame(h)

\* const locs = await listAllLocations(client); a failure goes to DEBUG_EXCEPTION.
DebugListLocations(h, ok) ==
    /\ hs[h].pc = "debugLocations"
    /\ LET now == [hs[h] EXCEPT !.calls = Append(@, Call("listLocations", 0, ok, 0))]
       IN  hs' = [Sweep(hs) EXCEPT ![h] =
                IF ~ok
                THEN [now EXCEPT !.pc = "done", !.resp = sendErr("DEBUG_EXCEPTION")]
                ELSE [now EXCEPT !.pc = "debugSearch", !.i = 1]]
    /\ DebugFrame(h)

\* const orders = await searchOrdersByRef(client, ref, since, locs): one iteration
\* of the same loop as in verify, `if (matches.length) break` included; when the
\* loop ends the handler enters the payment loop.
DebugSearch(h, ok) ==
    /\ hs[h].pc = "debugSearch"
    /\ LET me == hs[h]
           loc == listAllLocations[me.i]
           matches == me.matches \o MatchesOf(searchOrders(loc), me.query.ref)
           now == [me EXCEPT !.calls = Append(@, Call("searchOrders", loc, ok, 0))]
       IN  hs' = [Sweep(hs) EXCEPT ![h] =
                IF ~ok
                THEN [now EXCEPT !.pc = "done", !.resp = sendErr("DEBUG_EXCEPTION")]
                ELSE IF SearchGoesOn(matches, me.i)
                THEN [now EXCEPT !.i = me.i + 1, !.matches = matches]
                ELSE DebugPayments(
                        [now EXCEPT !.matches = matches,
                            !.found = [k \in 1..Len(matches) |-> OrderSnap(matches[k])]],
                        1)]
    /\ DebugFrame(h)

\* try { getPayment(t.paymentId); if (result?.payment) payments.push(...) }
\* catch { warn }, then the rest of the loop and the response.
DebugGetPayment(h, ok) ==
    /\ hs[h].pc = "debugPayments"
    /\ LET me == hs[h]
           pid == me.found[me.j].paymentId
           now == [me EXCEPT !.calls = Append(@, Call("retrievePayment", pid, ok, 0))]
       IN  hs' = [Sweep(hs) EXCEPT ![h] =
                IF ~ok
                THEN DebugCatch(now, me.j + 1)
                ELSE DebugPayments(
                        [now EXCEPT !.payments = Append(@, PaymentSnap(pid))],
                        me.j + 1)]
    /\ DebugFrame(h)

\* ------------------------------------------------ processor and customers
\* The customer pays: the order gets a tender with a payment, not yet settled.
CustomerPays(o) ==
    /\ orders[o].exists /\ orders[o].state = "OPEN" /\ orders[o].pay = "NONE"
    /\ orders' = [orders EXCEPT ![o].pay = "PENDING"]
    /\ hs' = Dirty(Sweep(hs))
    /\ UNCHANGED <<sessions, links, expectedLoc, minMinutes, minted>>

\* The payment reaches COMPLETED; the order may still be OPEN (settlement lag).
PaymentSettles(o) ==
    /\ orders[o].exists /\ orders[o].pay = "PENDING"
    /\ orders' = [orders EXCEPT ![o].pay = "COMPLETED"]
    /\ hs' = Dirty(Sweep(hs))
    /\ UNCHANGED <<sessions, links, expectedLoc, minMinutes, minted>>

\* The order follows its payment to COMPLETED.
OrderCompletes(o) ==
    /\ orders[o].exists /\ orders[o].state = "OPEN" /\ orders[o].pay = "COMPLETED"
    /\ orders' = [orders EXCEPT ![o].state = "COMPLETED"]
    /\ hs' = Dirty(Sweep(hs))
    /\ UNCHANGED <<sessions, links, expectedLoc, minMinutes, minted>>

\* The processor starts to report the order id of a link.
LinkShowsOrder(l) ==
    /\ links[l].exists /\ ~links[l].visible
    /\ links' = [links EXCEPT ![l].visible = TRUE]
    /\ hs' = Dirty(Sweep(hs))
    /\ UNCHANGED <<sessions, orders, expectedLoc, minMinutes, minted>>

\* More than one window length of time passes: every order is 25 hours older.
\* Once per run (no order is older than the oldest of start-up).
TimePasses ==
    /\ \A o \in OrderIds : orders[o].exists => orders[o].age <= WINDOW_MS \div HOUR_MS + 1
    /\ orders' = [o \in OrderIds |->
            IF orders[o].exists
            THEN [orders[o] EXCEPT !.age = @ + WINDOW_MS \div HOUR_MS + 1]
            ELSE orders[o]]
    /\ hs' = Dirty(Sweep(hs))
    /\ UNCHANGED <<sessions, links, expectedLoc, minMinutes, minted>>

\* ------------------------------------------------------------ specification
\* Request bodies of POST /api/ark/create-payment-link used with verification.
Bodies ==
    { [displayMinutes |-> Num(90), totalPrice |-> Undef, subtotal |-> Dollars(300)],
      [displayMinutes |-> Undef, totalPrice |-> Undef, subtotal |-> Inf] }

\* Price fields of a request body: absent, a non-numeric string, 1e999 (which
\* JSON.parse reads as Infinity), negative, zero, below one cent, below and above
\* the minimum, and with a third decimal (no exact ties: those depend on the
\* binary representation).
PriceInputs ==
    { Undef, Str, Inf, Dollars(-5), Num(0), Num(4), Dollars(50), Dollars(120),
      Dollars(300), Num(300004), Num(300006) }

\* displayMinutes of a request body: absent, a string, 1e999, negative, zero, and
\* values below, between and above the configured minimums.
MinuteInputs == { Undef, Str, Inf, Num(-5), Num(0), Num(30), Num(45), Num(75), Num(90) }

\* Request bodies: every price input as subtotal, totalPrice behind an absent and
\* behind a present subtotal (unusable, equal and different), and every
\* displayMinutes (minutes and price are computed independently of each other).
AllBodies ==
    { [displayMinutes |-> Undef, totalPrice |-> Undef, subtotal |-> p] :
        p \in PriceInputs }
    \cup { [displayMinutes |-> Undef, totalPrice |-> t, subtotal |-> p] :
        t \in {Dollars(50), Dollars(300)},
        p \in {Undef, Str, Num(0), Dollars(50), Dollars(300)} }
    \cup { [displayMinutes |-> m, totalPrice |-> Undef, subtotal |-> Dollars(300)] :
        m \in MinuteInputs }

\* Queries of GET /api/ark/verify: ref is absent, a token minted so far, or the
\* old token; orderId is absent, an order the processor may hold, or unknown.
Queries ==
    { [ref |-> r, orderId |-> o] :
        r \in {0, OldTok} \cup 1..minted,
        o \in {0, 1, NoOrderId} \cup 3..(2 + minted) }

\* Ages, in hours, of an order left by an earlier process lifetime: created exactly
\* one window length ago (still inside the window) and one hour earlier (outside).
\* Orders created in this lifetime have age 0: a run is short against the window.
OldAges == {WINDOW_MS \div HOUR_MS, WINDOW_MS \div HOUR_MS + 1}

\* An order left by an earlier process lifetime, carrying the old token.
OldOrder(loc, age) ==
    [exists |-> TRUE, state |-> "OPEN", loc |-> loc, ref |-> OldTok, pay |-> "NONE",
     age |-> age, amount |-> MIN_PRICE * 100]

\* Values of the environment variable MIN_MINUTES: below, at and above the default.
ConfiguredMinutes == {MIN_MINUTES - 30, MIN_MINUTES, MIN_MINUTES + 30}

\* The state after start-up, with the minimum minutes configured as one of mins.
InitWith(mins) ==
    /\ sessions = [r \in 1..OldTok |-> NoSession]
    /\ \E loc \in Locations, age \in OldAges :
         orders = [o \in OrderIds |-> IF o = 1 THEN OldOrder(loc, age) ELSE NoOrder]
    /\ links = [l \in LinkIds |-> NoLink]
    /\ expectedLoc \in {0, 1}
    /\ minMinutes \in mins
    /\ minted = 0
    /\ hs = [h \in Handlers |-> IdleHandler]

\* Start-up with MIN_MINUTES left at its default.
Init == InitWith({MIN_MINUTES})

\* In the runs that also verify, issuance mints at most MaxVerifyTokens tokens.
CanIssue(body) == InvalidAmount(amountCentsOf(body)) \/ minted < MaxVerifyTokens

\* One request at a time, against a processor whose orders, payments and links
\* change between and during the calls.
Next ==
    \/ \E body \in Bodies : CanIssue(body) /\ CreateStart(1, body)
    \/ \E ok \in BOOLEAN : ProcCreateLink(1, ok)
    \/ CreateFinish(1)
    \/ \E q \in Queries : VerifyStart(1, q.ref, q.orderId, "query")
    \/ \E ok \in BOOLEAN : VerifyGetLink(1, ok)
    \/ \E ok \in BOOLEAN : VerifyListLocations(1, ok)
    \/ \E ok \in BOOLEAN : searchOrdersByRef(1, ok)
    \/ \E ok \in BOOLEAN : VerifyRetrieveOrder(1, ok)
    \/ \E ok \in BOOLEAN : VerifyGetPayment(1, ok)
    \/ \E o \in OrderIds : CustomerPays(o)
    \/ \E o \in OrderIds : PaymentSettles(o)
    \/ \E o \in OrderIds : OrderCompletes(o)
    \/ \E l \in LinkIds : LinkShowsOrder(l)

Spec == Init /\ [][Next]_vars

\* Concurrent handlers: issuance and verification by reference token, interleaved at
\* their awaits, while no customer pays (orders stay OPEN without a tender).
QueriesConc == { [ref |-> r, orderId |-> 0] : r \in {OldTok} \cup 1..minted }

NextConc ==
    \/ \E h \in Handlers, body \in Bodies : CanIssue(body) /\ CreateStart(h, body)
    \/ \E h \in Handlers, ok \in BOOLEAN : ProcCreateLink(h, ok)
    \/ \E h \in Handlers : CreateFinish(h)
    \/ \E h \in Handlers, q \in QueriesConc : VerifyStart(h, q.ref, q.orderId, "none")
    \/ \E h \in Handlers, ok \in BOOLEAN : VerifyGetLink(h, ok)
    \/ \E h \in Handlers, ok \in BOOLEAN : VerifyListLocations(h, ok)
    \/ \E h \in Handlers, ok \in BOOLEAN : searchOrdersByRef(h, ok)
    \/ \E h \in Handlers, ok \in BOOLEAN : VerifyRetrieveOrder(h, ok)
    \/ \E l \in LinkIds : LinkShowsOrder(l)

SpecConc == Init /\ [][NextConc]_vars

\* Link issuance alone, one request at a time, over all request bodies.
NextIssue ==
    \/ \E body \in AllBodies : CreateStart(1, body)
    \/ \E ok \in BOOLEAN : ProcCreateLink(1, ok)
    \/ CreateFinish(1)

SpecIssue == Init /\ [][NextIssue]_vars

\* Link issuance alone, under every configured minimum of the minutes.
SpecFloor == InitWith(ConfiguredMinutes) /\ [][NextIssue]_vars

\* Link issuance by concurrent handlers, interleaved at the await.
NextMint ==
    \/ \E h \in Handlers, body \in Bodies : CreateStart(h, body)
    \/ \E h \in Handlers, ok \in BOOLEAN : ProcCreateLink(h, ok)
    \/ \E h \in Handlers : CreateFinish(h)

SpecMint == Init /\ [][NextMint]_vars

\* The debug route, one request at a time, between issuance calls and while
\* customers pay.
DebugRefs == {0, OldTok} \cup 1..minted

NextDebug ==
    \/ \E body \in Bodies : CanIssue(body) /\ CreateStart(1, body)
    \/ \E ok \in BOOLEAN : ProcCreateLink(1, ok)
    \/ CreateFinish(1)
    \/ \E ref \in DebugRefs : DebugStart(1, ref)
    \/ \E ok \in BOOLEAN : DebugListLocations(1, ok)
    \/ \E ok \in BOOLEAN : DebugSearch(1, ok)
    \/ \E ok \in BOOLEAN : DebugGetPayment(1, ok)
    \/ \E o \in OrderIds : CustomerPays(o)
    \/ \E o \in OrderIds : PaymentSettles(o)
    \/ \E o \in OrderIds : OrderCompletes(o)

SpecDebug == Init /\ [][NextDebug]_vars

\* Request bodies for version 3.0: those used with verification, and one with both
\* price fields, of different values.
Bodies30 ==
    Bodies \cup
    { [displayMinutes |-> Undef, totalPrice |-> Dollars(50), subtotal |-> Dollars(300)] }

\* Link issuance of version 3.0 by concurrent handlers, interleaved at the awaits.
NextUpdate ==
    \/ \E h \in Handlers, body \in Bodies30 : Create30Start(h, body)
    \/ \E h \in Handlers, ok \in BOOLEAN : ProcCreateLink30(h, ok)
    \/ \E h \in Handlers : Create30Finish(h)
    \/ \E h \in Handlers, ok \in BOOLEAN : Create30Update(h, ok)

SpecUpdate == Init /\ [][NextUpdate]_vars

\* Concurrent handlers of all three routes, each call for one of the tokens minted
\* so far (up to MaxTokens of them), while the processor starts to report the order
\* ids of links and no customer pays (orders stay OPEN without a tender).
NextIso ==
    \/ \E h \in Handlers, body \in Bodies : CreateStart(h, body)
    \/ \E h \in Handlers, ok \in BOOLEAN : ProcCreateLink(h, ok)
    \/ \E h \in Handlers : CreateFinish(h)
    \/ \E h \in Handlers, t \in 1..minted : VerifyStart(h, t, 0, "none")
    \/ \E h \in Handlers, ok \in BOOLEAN : VerifyGetLink(h, ok)
    \/ \E h \in Handlers, ok \in BOOLEAN : VerifyListLocations(h, ok)
    \/ \E h \in Handlers, ok \in BOOLEAN : searchOrdersByRef(h, ok)
    \/ \E h \in Handlers, ok \in BOOLEAN : VerifyRetrieveOrder(h, ok)
    \/ \E h \in Handlers, t \in 1..minted : DebugStart(h, t)
    \/ \E h \in Handlers, ok \in BOOLEAN : DebugListLocations(h, ok)
    \/ \E h \in Handlers, ok \in BOOLEAN : DebugSearch(h, ok)
    \/ \E l \in LinkIds : LinkShowsOrder(l)

\* Start-up without a configured location, the old order at the first location.
InitIso == Init /\ expectedLoc = 0 /\ orders[1] = OldOrder(1, WINDOW_MS \div HOUR_MS)

SpecIso == InitIso /\ [][NextIso]_vars

\* The storefront polls verify by token: the old token or one minted so far.
Poll(t) == t \in {OldTok} \cup 1..minted /\ VerifyStart(1, t, 0, "none")

\* One request at a time, issuance and polls by token, while customers pay, the
\* processor settles, and time passes.
NextLive ==
    \/ \E body \in Bodies : CanIssue(body) /\ CreateStart(1, body)
    \/ \E ok \in BOOLEAN : ProcCreateLink(1, ok)
    \/ CreateFinish(1)
    \/ \E t \in Refs \ {0} : Poll(t)
    \/ \E ok \in BOOLEAN : VerifyGetLink(1, ok)
    \/ \E ok \in BOOLEAN : VerifyListLocations(1, ok)
    \/ \E ok \in BOOLEAN : searchOrdersByRef(1, ok)
    \/ \E ok \in BOOLEAN : VerifyRetrieveOrder(1, ok)
    \/ \E ok \in BOOLEAN : VerifyGetPayment(1, ok)
    \/ \E o \in OrderIds : CustomerPays(o)
    \/ \E o \in OrderIds : PaymentSettles(o)
    \/ \E o \in OrderIds : OrderCompletes(o)
    \/ \E l \in LinkIds : LinkShowsOrder(l)
    \/ TimePasses

\* Scheduling: a handler whose remote call has returned (or thrown) runs its
\* continuation; the storefront keeps polling every token it holds.
FairLive ==
    /\ WF_vars(\E ok \in BOOLEAN : ProcCreateLink(1, ok))
    /\ WF_vars(CreateFinish(1))
    /\ WF_vars(\E ok \in BOOLEAN : VerifyGetLink(1, ok))
    /\ WF_vars(\E ok \in BOOLEAN : VerifyListLocations(1, ok))
    /\ WF_vars(\E ok \in BOOLEAN : searchOrdersByRef(1, ok))
    /\ WF_vars(\E ok \in BOOLEAN : VerifyRetrieveOrder(1, ok))
    /\ WF_vars(\E ok \in BOOLEAN : VerifyGetPayment(1, ok))
    /\ \A t \in Refs \ {0} : SF_vars(Poll(t))

SpecLive == Init /\ [][NextLive]_vars /\ FairLive

\* Queries of GET /api/ark/verify that carry an orderId: an order the processor
\* holds or an unknown id, with every ref (none, the old token, a minted token).
QueriesDirect ==
    { [ref |-> r, orderId |-> o] :
        r \in {0, OldTok} \cup 1..minted,
        o \in {1, NoOrderId} \cup 3..(2 + minted) }

\* One request at a time, issuance and verify calls by orderId, while customers pay
\* and the processor settles. With an orderId the handler goes straight to
\* retrieveOrder: link inspection and search are never entered.
NextDirect ==
    \/ \E body \in Bodies : CanIssue(body) /\ CreateStart(1, body)
    \/ \E ok \in BOOLEAN : ProcCreateLink(1, ok)
    \/ CreateFinish(1)
    \/ \E q \in QueriesDirect : VerifyStart(1, q.ref, q.orderId, "order")
    \/ \E ok \in BOOLEAN : VerifyRetrieveOrder(1, ok)
    \/ \E ok \in BOOLEAN : VerifyGetPayment(1, ok)
    \/ \E o \in OrderIds : CustomerPays(o)
    \/ \E o \in OrderIds : PaymentSettles(o)
    \/ \E o \in OrderIds : OrderCompletes(o)

SpecDirect == Init /\ [][NextDirect]_vars

\* ------------------------------------------------------------------ claims
Verified(m) == m.kind = "verify" /\ m.pc = "done"
Made(m, api) == \E i \in 1..Len(m.calls) : m.calls[i].api = api

\* A finished verify call that retrieved its order, passed the location check and
\* had no remote lookup fail.
Decided(m) ==
    /\ Verified(m)
    /\ m.order # NoSnap
    /\ ~LocationMismatch(m.order.loc)
    /\ m.resp.error # "VERIFY_EXCEPTION"

\* The retrieved order is COMPLETED, or its first tender carries a payment id and
\* the payment retrieved for it is COMPLETED.
PaidSignal(m) ==
    \/ m.order.state = "COMPLETED"
    \/ m.order.paymentId # 0 /\ m.payment = "COMPLETED"

\* C1: a verify call that resolved an order passing the location check (and whose
\* lookups all succeeded) answers ok:true exactly when the retrieved order is
\* COMPLETED or the payment retrieved for its first tender is COMPLETED; otherwise
\* it answers ok:false, NOT_COMPLETED_YET, with the order state it observed.
C1_PaidIffVerified ==
    \A h \in Handlers :
        Decided(hs[h]) =>
            /\ hs[h].resp.ok = "true" <=> PaidSignal(hs[h])
            /\ ~PaidSignal(hs[h]) =>
                /\ hs[h].resp.ok = "false"
                /\ hs[h].resp.error = "NOT_COMPLETED_YET"
                /\ hs[h].resp.state = hs[h].order.state
            /\ hs[h].resp.status = 200

\* C1 witness: an order whose tender's payment was retrieved and is not COMPLETED,
\* answered NOT_COMPLETED_YET.
C1_Witness ==
    \E h \in Handlers :
        /\ Decided(hs[h])
        /\ hs[h].order.state = "OPEN"
        /\ hs[h].payment = "PENDING"
        /\ hs[h].resp.error = "NOT_COMPLETED_YET"

\* C2: settlement lag. When the retrieved order is OPEN and the payment retrieved
\* for its first tender is COMPLETED, verify answers ok:true with state "OPEN",
\* paymentStatus "COMPLETED" and that payment's id.
C2_SettlementLag ==
    \A h \in Handlers :
        ( /\ Verified(hs[h])
          /\ hs[h].order.state = "OPEN"
          /\ hs[h].order.paymentId # 0
          /\ hs[h].payment = "COMPLETED" ) =>
            /\ hs[h].resp.ok = "true"
            /\ hs[h].resp.state = "OPEN"
            /\ hs[h].resp.paymentStatus = "COMPLETED"
            /\ hs[h].resp.paymentId = hs[h].order.paymentId
            /\ hs[h].resp.orderId = hs[h].oid

\* C2 witness: an OPEN order found through its reference token whose payment has
\* settled.
C2_Witness ==
    \E h \in Handlers :
        /\ Verified(hs[h])
        /\ hs[h].order.state = "OPEN"
        /\ hs[h].payment = "COMPLETED"
        /\ hs[h].query.orderId = 0
        /\ orders[hs[h].oid].state = "OPEN"

\* C3: whenever an expected location is configured and the retrieved order's
\* location differs from it, verify answers LOCATION_MISMATCH (ok:false) and has
\* made no retrievePayment call, whatever the order's or its payment's state.
C3_LocationFirst ==
    \A h \in Handlers :
        ( /\ Verified(hs[h])
          /\ hs[h].order # NoSnap
          /\ expectedLoc # 0
          /\ hs[h].order.loc # expectedLoc ) =>
            /\ hs[h].resp.ok = "false"
            /\ hs[h].resp.error = "LOCATION_MISMATCH"
            /\ hs[h].resp.orderLocation = hs[h].order.loc
            /\ hs[h].resp.expected = expectedLoc
            /\ ~Made(hs[h], "retrievePayment")

\* C3 witness: LOCATION_MISMATCH for an order that is COMPLETED with a COMPLETED
\* payment.
C3_Witness ==
    \E h \in Handlers :
        /\ Verified(hs[h])
        /\ hs[h].resp.error = "LOCATION_MISMATCH"
        /\ hs[h].order.state = "COMPLETED"
        /\ orders[hs[h].oid].pay = "COMPLETED"

\* The cascade stage a remote call belongs to, in the order of the cascade.
Rank(api) ==
    CASE api = "getLink" -> 1
      [] api = "listLocations" -> 2
      [] api = "searchOrders" -> 3
      [] api = "retrieveOrder" -> 4
      [] api = "retrievePayment" -> 5
      [] OTHER -> 0

Searched(m) == Made(m, "listLocations") \/ Made(m, "searchOrders")
LinkGave(m) == \E i \in 1..Len(m.calls) : m.calls[i].api = "getLink" /\ m.calls[i].out # 0

\* C4: the remote calls of a verify call follow the order link inspection, bounded
\* search, retrieval; with a caller-supplied orderId, or with an order id in the
\* cache, no getLink, listLocations or searchOrders call is made; with an order id
\* recovered by getLink no listLocations or searchOrders call is made; and the
\* order retrieved is the one of the first stage that produced an id.
C4_StageOrder ==
    \A h \in Handlers :
        LET m == hs[h] IN
        m.kind = "verify" =>
            /\ \A i, j \in 1..Len(m.calls) :
                    i < j => Rank(m.calls[i].api) <= Rank(m.calls[j].api)
            /\ m.query.orderId # 0 => ~Made(m, "getLink") /\ ~Searched(m)
            /\ m.seen # 0 => ~Made(m, "getLink") /\ ~Searched(m)
            /\ LinkGave(m) => ~Searched(m)
            /\ \A i \in 1..Len(m.calls) :
                    m.calls[i].api = "retrieveOrder" =>
                        m.calls[i].arg =
                            IF m.query.orderId # 0 THEN m.query.orderId
                            ELSE IF m.seen # 0 THEN m.seen
                            ELSE IF LinkGave(m) THEN m.calls[1].out
                            ELSE m.matches[1]

\* C4 witness: a verify call by ref whose order id came from getLink and which went
\* on to retrieve that order.
C4_Witness ==
    \E h \in Handlers :
        /\ Verified(hs[h])
        /\ LinkGave(hs[h])
        /\ Made(hs[h], "retrieveOrder")
        /\ hs[h].resp.orderId = hs[h].calls[1].out

\* C5: once the Session Record of a token holds an order id, no step changes it
\* (merge-only enrichment), under any interleaving of the handlers.
C5_MergeOnly ==
    [][\A t \in 1..OldTok :
            sessions[t].orderId # 0 => sessions'[t].orderId = sessions[t].orderId]_vars

\* C5 witness: two verify handlers of one token that both found the order id absent
\* and both ran the link-inspection write-back.
C5_Witness ==
    \E h1, h2 \in Handlers :
        /\ h1 # h2
        /\ hs[h1].kind = "verify" /\ hs[h2].kind = "verify"
        /\ hs[h1].query.ref = hs[h2].query.ref
        /\ hs[h1].seen = 0 /\ hs[h2].seen = 0
        /\ LinkGave(hs[h1]) /\ LinkGave(hs[h2])
        /\ sessions[hs[h1].query.ref].orderId = hs[h1].calls[1].out

RequestedPrice(body) == Nullish(body.subtotal, body.totalPrice)

\* max(minPrice, round(p, 2)) in thousandths of a dollar, for p in thousandths.
ExpectedCharge(p) ==
    LET cents == (p + 5) \div 10
    IN  IF cents * 10 >= MIN_PRICE * MILLS THEN cents * 10 ELSE MIN_PRICE * MILLS

Issued(m) == m.kind = "create" /\ m.pc = "done" /\ m.resp.url # 0

\* C7: for every positive numeric price p of the request, issuance does not answer
\* INVALID_AMOUNT, the amount sent to createLink is max(minPrice, round(p, 2)) in
\* integer cents, and on success the charge returned, the redirect price and the
\* line item of the order carry that charge.
C7_ChargeFloor ==
    \A h \in Handlers :
        LET m == hs[h]
            p == RequestedPrice(m.body)
        IN  (m.kind = "create" /\ p.k = "num" /\ p.v > 0) =>
                /\ m.resp.error # "INVALID_AMOUNT"
                /\ m.pc \in {"createLink", "created"} =>
                        m.amountCents = Num(ExpectedCharge(p.v) \div 10)
                /\ \A i \in 1..Len(m.calls) :
                        m.calls[i].api = "createLink" =>
                            m.calls[i].arg = Num(ExpectedCharge(p.v) \div 10)
                /\ Issued(m) =>
                        /\ m.resp.charge = Num(ExpectedCharge(p.v))
                        /\ links[m.resp.url].redirect.price = Num(ExpectedCharge(p.v))
                        /\ orders[links[m.resp.url].orderId].amount =
                                ExpectedCharge(p.v) \div 10

\* C7 witness: a link issued for subtotal = 50 with minPrice = 120 carries 120.
C7_Witness ==
    \E h \in Handlers :
        /\ Issued(hs[h])
        /\ hs[h].body.subtotal = Dollars(50)
        /\ hs[h].resp.charge = Dollars(120)
        /\ Made(hs[h], "createLink")

\* A price input that is missing, non-numeric, zero or negative.
BadPrice(body) ==
    LET p == RequestedPrice(body)
    IN  p.k \in {"undef", "str"} \/ (p.k = "num" /\ p.v <= 0)

\* C8 as stated: for a price input that is missing, zero, negative or non-numeric,
\* issuance answers INVALID_AMOUNT and no createLink call is sent.
C8_BadPriceRejected ==
    \A h \in Handlers :
        (hs[h].kind = "create" /\ BadPrice(hs[h].body)) =>
            /\ hs[h].pc \notin {"createLink", "created"}
            /\ ~Made(hs[h], "createLink")
            /\ hs[h].pc = "done" => hs[h].resp.error = "INVALID_AMOUNT"

\* C9: a step in which issuance answers INVALID_AMOUNT has sent no Processor
\* Gateway call for that request, mints no token, and leaves the Reference Store
\* and the processor as they were.
C9_ValidationFirst ==
    [][\A h \in Handlers :
            (/\ hs'[h].kind = "create"
             /\ hs'[h].pc = "done"
             /\ hs'[h].resp.error = "INVALID_AMOUNT") =>
                /\ hs'[h].calls = <<>>
                /\ sessions' = sessions
                /\ minted' = minted
                /\ orders' = orders
                /\ links' = links]_vars

\* C9 witness: issuance has answered INVALID_AMOUNT after a link had been issued
\* (the store is not empty).
C9_Witness ==
    \E h \in Handlers :
        /\ hs[h].kind = "create" /\ hs[h].pc = "done"
        /\ hs[h].resp.error = "INVALID_AMOUNT"
        /\ \E t \in Tokens : sessions[t].present

\* C10: every createLink call of issuance, sent or about to be sent, carries a
\* finite amount of at least one cent, and so does the order created from it.
C10_PositiveCents ==
    /\ \A h \in Handlers :
        /\ (hs[h].kind = "create" /\ hs[h].pc \in {"createLink", "created"}) =>
                IsFinite(hs[h].amountCents) /\ hs[h].amountCents.v > 0
        /\ \A i \in 1..Len(hs[h].calls) :
                hs[h].calls[i].api = "createLink" =>
                    IsFinite(hs[h].calls[i].arg) /\ hs[h].calls[i].arg.v > 0
    /\ \A o \in OrderIds : orders[o].exists => orders[o].amount > 0

\* C10 witness: a createLink call was sent for a request whose price is negative.
C10_Witness ==
    \E h \in Handlers :
        /\ hs[h].kind = "create"
        /\ hs[h].body.subtotal = Dollars(-5)
        /\ \E i \in 1..Len(hs[h].calls) :
                hs[h].calls[i].api = "createLink" /\ hs[h].calls[i].arg.v > 0

\* A step in which handler h passes the amount validation and mints its token.
MintStep(h) == hs'[h].kind = "create" /\ hs'[h].pc = "createLink" /\ hs[h].pc # "createLink"

\* C11: an issuance call that passes validation mints exactly one reference token,
\* different from every token minted before; no other step mints; issuance calls
\* in flight hold pairwise different tokens; and a Session Record, once written,
\* is never replaced by an issuance write (its link id and time stay).
C11_FreshTokens ==
    [][/\ \A h \in Handlers :
            MintStep(h) => /\ minted' = minted + 1
                           /\ hs'[h].ref \notin 1..minted
                           /\ hs'[h].ref \in 1..minted'
       /\ (\A h \in Handlers : ~MintStep(h)) => minted' = minted
       /\ \A h1, h2 \in Handlers :
            (h1 # h2 /\ hs'[h1].kind = "create" /\ hs'[h2].kind = "create"
                /\ hs'[h1].ref # 0 /\ hs'[h2].ref # 0) => hs'[h1].ref # hs'[h2].ref
       /\ \A t \in 1..OldTok :
            sessions[t].present =>
                /\ sessions'[t].present
                /\ sessions'[t].linkId = sessions[t].linkId
                /\ sessions'[t].at = sessions[t].at]_vars

\* C11 witness: a second issuance has answered with its own token while the Session
\* Record of the first is in the store, under another link id.
C11_Witness ==
    \E h \in Handlers :
        /\ Issued(hs[h])
        /\ hs[h].resp.ref = 2
        /\ sessions[1].present /\ sessions[2].present
        /\ sessions[1].linkId # sessions[2].linkId

CreateLinkCalls(m) == {i \in 1..Len(m.calls) : m.calls[i].api = "createLink"}
CreateLinkFailed(m) ==
    m.kind = "create" /\ \E i \in CreateLinkCalls(m) : ~m.calls[i].ok

\* C13: an issuance request sends at most one createLink call; when that call has
\* failed the handler's next step answers CREATE_LINK_FAILED (status 200, ok:false)
\* without a second attempt, and that step leaves the Reference Store unchanged,
\* with no Session Record under the request's token.
C13_CreateLinkFailed ==
    [][\A h \in Handlers :
        /\ hs'[h].kind = "create" => Cardinality(CreateLinkCalls(hs'[h])) <= 1
        /\ (CreateLinkFailed(hs[h]) /\ hs[h].pc = "created") =>
                /\ hs'[h].pc # "createLink"
                /\ hs'[h] # hs[h] =>
                    /\ hs'[h].pc = "done"
                    /\ hs'[h].resp = [NoResp EXCEPT !.status = 200, !.ok = "false",
                                                    !.error = "CREATE_LINK_FAILED"]
                    /\ hs'[h].calls = hs[h].calls
                    /\ sessions' = sessions
                    /\ ~sessions'[hs[h].ref].present]_vars

\* C13 witness: issuance has answered CREATE_LINK_FAILED after one failed createLink
\* call; the store holds the record of an earlier issuance and none for this token.
C13_Witness ==
    \E h \in Handlers :
        /\ hs[h].kind = "create" /\ hs[h].pc = "done"
        /\ hs[h].resp.error = "CREATE_LINK_FAILED"
        /\ Cardinality(CreateLinkCalls(hs[h])) = 1
        /\ CreateLinkFailed(hs[h])
        /\ ~sessions[hs[h].ref].present
        /\ \E t \in Tokens : sessions[t].present

\* C14: for every successful issuance the token returned to the caller is the
\* handler's minted token, the reference field of the order created with the
\* link, the ref of the link's redirect and the key of the Session Record; the
\* record holds the link id, record and response carry the order id createLink
\* returned (0: none), and no other token's record holds this link.
C14_Correlation ==
    \A h \in Handlers :
        Issued(hs[h]) =>
            LET m == hs[h]
                t == m.resp.ref
                l == m.resp.url
                o == links[l].orderId
            IN  /\ t \in Tokens /\ t = m.ref
                /\ links[l].exists /\ orders[o].exists
                /\ orders[o].ref = t
                /\ links[l].redirect.ref = t
                /\ sessions[t].present
                /\ sessions[t].linkId = l
                /\ m.resp.orderId = m.result.orderId
                /\ sessions[t].orderId = m.resp.orderId
                /\ m.resp.orderId \in {0, o}
                /\ \A t2 \in 1..OldTok : t2 # t => sessions[t2].linkId # l

\* C14 witness: the second issuance succeeded with no order id in createLink's
\* response: the record under its token holds the link id and a null order id.
C14_Witness ==
    \E h \in Handlers :
        /\ Issued(hs[h])
        /\ hs[h].resp.ref = 2
        /\ hs[h].resp.orderId = 0
        /\ sessions[2].linkId = hs[h].resp.url
        /\ sessions[2].orderId = 0
        /\ orders[links[hs[h].resp.url].orderId].ref = 2

\* C15: a verify call answers with HTTP 400 exactly when it has neither ref nor
\* orderId, and with HTTP 200 otherwise; the 400 answer is {ok:false,
\* error:"MISSING_REF_OR_ORDER_ID"}, given without any remote call and in a step
\* that leaves the Reference Store unchanged.
C15_MissingIdentifiers ==
    [][\A h \in Handlers :
        (hs'[h].kind = "verify" /\ hs'[h].pc = "done") =>
            /\ hs'[h].resp.status \in {200, 400}
            /\ hs'[h].resp.status = 400 <=> hs'[h].query = NoQuery
            /\ hs'[h].query = NoQuery =>
                /\ hs'[h].resp = [NoResp EXCEPT !.status = 400, !.ok = "false",
                                                !.error = "MISSING_REF_OR_ORDER_ID"]
                /\ hs'[h].calls = <<>>
                /\ sessions' = sessions]_vars

\* C15 witness: a verify call without identifiers was answered with 400 while the
\* store held a Session Record.
C15_Witness ==
    \E h \in Handlers :
        /\ Verified(hs[h])
        /\ hs[h].query = NoQuery
        /\ hs[h].resp.status = 400
        /\ \E t \in Tokens : sessions[t].present

\* The locations a verify call has queried with searchOrders, in call order.
SearchedLocs(m) ==
    LET S == SelectSeq(m.calls, LAMBDA c : c.api = "searchOrders")
    IN  [i \in 1..Len(S) |-> S[i].arg]

\* No listLocations or searchOrders call of the bounded search failed.
NoSearchFailure(m) ==
    \A i \in 1..Len(m.calls) :
        m.calls[i].api \in {"listLocations", "searchOrders"} => m.calls[i].ok

\* C16: a verify call with only a ref, for which the cache gave no order id, link
\* inspection recovered none, no order at the processor carries the ref and no
\* search call failed, answers {ok:false, error:"ORDER_NOT_FOUND", ref} after
\* querying every location; and no call that answers ORDER_NOT_FOUND has called
\* retrieveOrder or retrievePayment.
C16_OrderNotFound ==
    \A h \in Handlers :
        LET m == hs[h] IN
        /\ (/\ Verified(m)
            /\ m.query.orderId = 0 /\ m.query.ref # 0
            /\ m.seen = 0 /\ ~LinkGave(m)
            /\ OrderByRef(m.query.ref) = 0
            /\ NoSearchFailure(m)) =>
                /\ m.resp = [NoResp EXCEPT !.status = 200, !.ok = "false",
                                !.error = "ORDER_NOT_FOUND", !.ref = m.query.ref]
                /\ SearchedLocs(m) = listAllLocations
        /\ (Verified(m) /\ m.resp.error = "ORDER_NOT_FOUND") =>
                /\ ~Made(m, "retrieveOrder") /\ ~Made(m, "retrievePayment")
                /\ m.resp.ref = m.query.ref
                /\ m.resp.ok = "false" /\ m.resp.status = 200

\* C16 witness: verify by a token whose createLink call failed (no Session Record,
\* no order): listLocations and one searchOrders per location, then ORDER_NOT_FOUND.
C16_Witness ==
    \E h \in Handlers :
        /\ Verified(hs[h])
        /\ hs[h].query = [ref |-> 1, orderId |-> 0]
        /\ ~sessions[1].present
        /\ OrderByRef(1) = 0
        /\ hs[h].resp.error = "ORDER_NOT_FOUND"
        /\ Len(hs[h].calls) = 1 + NumLocations

\* C17: the bounded search queries the locations one at a time in listLocations
\* order; once a search has produced matches, the last location queried is the
\* location of the matched order, no location before it holds a match and none
\* after it was queried; and a verify call with only ref and no cached ids that
\* matched a COMPLETED order at an accepted location answers ok:true, state
\* COMPLETED, matchesRef:true with the matched order's id.
C17_SearchShortCircuit ==
    \A h \in Handlers :
        LET m == hs[h]
            locs == SearchedLocs(m)
            k == Len(locs)
        IN  m.kind = "verify" =>
            /\ k <= NumLocations
            /\ \A i \in 1..k : locs[i] = listAllLocations[i]
            /\ m.matches # <<>> =>
                /\ orders[m.matches[1]].loc = locs[k]
                /\ matchesRef(orders[m.matches[1]].ref, m.query.ref)
                /\ \A j \in 1..(k - 1) : MatchesOf(searchOrders(locs[j]), m.query.ref) = <<>>
                /\ m.pc # "search"
                /\ m.oid = m.matches[1]
            /\ (/\ m.pc = "done" /\ m.matches # <<>>
                /\ m.query.orderId = 0 /\ m.seen = 0 /\ ~Made(m, "getLink")
                /\ m.order.state = "COMPLETED"
                /\ ~LocationMismatch(m.order.loc)) =>
                    m.resp = [NoResp EXCEPT !.status = 200, !.ok = "true",
                                !.state = "COMPLETED", !.orderId = m.matches[1],
                                !.matchesRef = "true"]

\* C17 witness: verify by ref alone, nothing cached; the first location yields the
\* order, which is COMPLETED; the remaining locations were not queried.
C17_Witness ==
    \E h \in Handlers :
        /\ Verified(hs[h])
        /\ hs[h].query.orderId = 0 /\ hs[h].seen = 0 /\ ~Made(hs[h], "getLink")
        /\ hs[h].matches # <<>>
        /\ Len(SearchedLocs(hs[h])) < NumLocations
        /\ hs[h].resp.ok = "true" /\ hs[h].resp.state = "COMPLETED"
        /\ hs[h].resp.matchesRef = "true"

\* C18 as stated: every verify result for which an order was retrieved and whose
\* outcome is verified, NOT_COMPLETED_YET or LOCATION_MISMATCH carries matchesRef
\* equal to (the order's reference field = the input ref).
C18_MatchesRefAlways ==
    \A h \in Handlers :
        LET m == hs[h] IN
        (/\ Verified(m)
         /\ m.order # NoSnap
         /\ \/ m.resp.ok = "true"
            \/ m.resp.error \in {"NOT_COMPLETED_YET", "LOCATION_MISMATCH"}) =>
                m.resp.matchesRef = Bool(matchesRef(m.order.ref, m.query.ref))

\* C19 as stated: a verify call during which any remote call failed (getLink,
\* listLocations, searchOrders, retrieveOrder or retrievePayment) answers
\* {ok:false, error:"VERIFY_EXCEPTION"} with HTTP 200.
C19_FailurePropagates ==
    \A h \in Handlers :
        LET m == hs[h] IN
        (Verified(m) /\ \E i \in 1..Len(m.calls) : ~m.calls[i].ok) =>
            m.resp = [NoResp EXCEPT !.status = 200, !.ok = "false",
                                    !.error = "VERIFY_EXCEPTION"]

\* C20: a verify call by a minted token that began when the token's order existed
\* at the processor and the store held no ids for the token, and none of whose
\* remote calls failed, went through the bounded search and resolved that order
\* by its reference field: it answers with the order's id, never ORDER_NOT_FOUND
\* or VERIFY_EXCEPTION.
C20_RaceTolerance ==
    \A h \in Handlers :
        LET m == hs[h] IN
        (/\ Verified(m)
         /\ m.query.orderId = 0 /\ m.query.ref \in Tokens
         /\ m.orderAtStart # 0
         /\ m.seen = 0 /\ ~Made(m, "getLink")
         /\ \A i \in 1..Len(m.calls) : m.calls[i].ok) =>
            /\ Made(m, "listLocations") /\ Made(m, "searchOrders")
            /\ m.resp.error \notin {"ORDER_NOT_FOUND", "VERIFY_EXCEPTION"}
            /\ m.resp.orderId = m.orderAtStart
            /\ orders[m.resp.orderId].ref = m.query.ref
            /\ m.resp.matchesRef = "true"

\* C20 witness: the verify call has answered with the order while the issuance
\* handler of the same token is still suspended at createPaymentLink's await, the
\* Session Record not yet written.
C20_Witness ==
    \E a, b \in Handlers :
        /\ hs[a].kind = "create" /\ hs[a].pc = "created" /\ hs[a].result.ok
        /\ ~sessions[hs[a].ref].present
        /\ Verified(hs[b])
        /\ hs[b].query = [ref |-> hs[a].ref, orderId |-> 0]
        /\ hs[b].orderAtStart # 0
        /\ Made(hs[b], "searchOrders")
        /\ hs[b].resp.orderId = hs[b].orderAtStart
        /\ hs[b].resp.error = "NOT_COMPLETED_YET"

\* The orders at the processor whose reference field is ref.
OrdersByRef(ref) == {o \in OrderIds : orders[o].exists /\ matchesRef(orders[o].ref, ref)}

\* C28: the bounded search matches only orders created within the last 24 hours: a
\* matched order is never older than the window, and a verify call with only a ref
\* and no cached order or link id, all of whose orders with that reference field
\* were created more than 24 hours before, and whose search calls did not fail,
\* matches nothing and answers ORDER_NOT_FOUND; an order created exactly 24 hours
\* before is still matched.
C28_SearchWindow ==
    \A h \in Handlers :
        LET m == hs[h] IN
        m.kind = "verify" =>
            /\ \A i \in 1..Len(m.matches) :
                    orders[m.matches[i]].age * HOUR_MS <= 1000 * 60 * 60 * 24
            /\ (/\ m.pc = "done"
                /\ m.query.orderId = 0 /\ m.query.ref # 0
                /\ m.seen = 0 /\ ~Made(m, "getLink")
                /\ NoSearchFailure(m)
                /\ \A o \in OrdersByRef(m.query.ref) : orders[o].age > 24) =>
                    /\ m.matches = <<>>
                    /\ m.resp = [NoResp EXCEPT !.status = 200, !.ok = "false",
                                    !.error = "ORDER_NOT_FOUND", !.ref = m.query.ref]
            /\ (/\ m.pc = "done"
                /\ m.query.orderId = 0 /\ m.query.ref # 0
                /\ m.seen = 0 /\ ~Made(m, "getLink")
                /\ NoSearchFailure(m)
                /\ \E o \in OrdersByRef(m.query.ref) : orders[o].age <= 24) =>
                    /\ m.matches # <<>>
                    /\ m.resp.error # "ORDER_NOT_FOUND"

\* C28 witness: an order carrying the token exists at the processor, created 25
\* hours before; verify by that token searched every location and answered
\* ORDER_NOT_FOUND.
C28_Witness ==
    \E h \in Handlers :
        /\ Verified(hs[h])
        /\ hs[h].query = [ref |-> OldTok, orderId |-> 0]
        /\ OrdersByRef(OldTok) # {}
        /\ \A o \in OrdersByRef(OldTok) : orders[o].age = 25
        /\ Len(SearchedLocs(hs[h])) = NumLocations
        /\ hs[h].resp.error = "ORDER_NOT_FOUND"

\* A finished debug call that answered with the snapshot object.
Snapshot(m) ==
    m.kind = "debug" /\ m.pc = "done" /\ m.resp.status = 200 /\ m.resp.error = "-"

\* C21 as stated: a debug call that answers with the snapshot has queried every
\* known location, in listLocations order, and reports every order inside the
\* search window whose reference field equals the token.
C21_DebugExhaustive ==
    \A h \in Handlers :
        LET m == hs[h] IN
        Snapshot(m) =>
            /\ SearchedLocs(m) = listAllLocations
            /\ {m.resp.orders[k].id : k \in 1..Len(m.resp.orders)} =
                    {o \in OrdersByRef(m.query.ref) : InWindow(orders[o].age)}

\* C22: every step of a debug call (the MISSING_REF answer, each remote read, the
\* DEBUG_EXCEPTION answer and the snapshot answer) leaves the Reference Store, the
\* processor's orders and links and the token counter unchanged, and the only
\* remote calls a debug call makes are listLocations, searchOrders and
\* retrievePayment.
C22_DebugReadOnly ==
    [][\A h \in Handlers :
        (hs'[h].kind = "debug" /\ hs'[h] # hs[h]) =>
            /\ sessions' = sessions
            /\ orders' = orders
            /\ links' = links
            /\ minted' = minted
            /\ \A i \in 1..Len(hs'[h].calls) :
                    hs'[h].calls[i].api \in
                        {"listLocations", "searchOrders", "retrievePayment"}]_vars

\* C22 witness: the snapshot of a token whose Session Record has a link id and no
\* order id reports the token's order, and the record still has no order id.
C22_Witness ==
    \E h \in Handlers :
        /\ Snapshot(hs[h])
        /\ hs[h].found # <<>>
        /\ hs[h].query.ref \in Tokens
        /\ sessions[hs[h].query.ref].present
        /\ sessions[hs[h].query.ref].orderId = 0
        /\ hs[h].resp.cache = sessions[hs[h].query.ref]

\* The payment ids of the payment lookups of a debug call that succeeded, in call order.
PaymentsLookedUp(m) ==
    LET S == SelectSeq(m.calls, LAMBDA c : c.api = "retrievePayment" /\ c.ok)
    IN  [k \in 1..Len(S) |-> S[k].arg]

\* C27: a finished debug call with a ref whose listLocations and searchOrders
\* calls succeeded answers with the snapshot object whatever happened to its
\* payment lookups: the locations, the cache entry of the ref, every order the
\* search matched, and exactly the payments whose lookups succeeded; a lookup
\* was made for each matched order with a tender, and a failed one ends nothing.
C27_DebugPaymentBestEffort ==
    \A h \in Handlers :
        LET m == hs[h] IN
        (/\ m.kind = "debug" /\ m.pc = "done" /\ m.query.ref # 0
         /\ NoSearchFailure(m)) =>
            /\ m.resp.status = 200 /\ m.resp.error = "-"
            /\ m.resp.locations = listAllLocations
            /\ m.resp.cache = sessionsGet(m.query.ref)
            /\ m.resp.orders = m.found
            /\ [k \in 1..Len(m.found) |-> m.found[k].id] = m.matches
            /\ [k \in 1..Len(m.resp.payments) |-> m.resp.payments[k].id] =
                    PaymentsLookedUp(m)
            /\ \A k \in 1..Len(m.found) :
                    m.found[k].paymentId # 0 =>
                        \E i \in 1..Len(m.calls) :
                            /\ m.calls[i].api = "retrievePayment"
                            /\ m.calls[i].arg = m.found[k].paymentId

\* C27 witness: the payment lookup of the matched order failed; the answer is the
\* snapshot with that order and no payment.
C27_Witness ==
    \E h \in Handlers :
        /\ Snapshot(hs[h])
        /\ \E i \in 1..Len(hs[h].calls) :
                hs[h].calls[i].api = "retrievePayment" /\ ~hs[h].calls[i].ok
        /\ Len(hs[h].resp.orders) = 1
        /\ hs[h].resp.orders[1].paymentId # 0
        /\ hs[h].resp.payments = <<>>

\* max(configuredMinimumMinutes, requestedMinutes), a missing or non-numeric
\* request counting as the minimum.
ExpectedMinutes(d) ==
    IF d.k = "inf" THEN Inf
    ELSE IF d.k = "num" /\ d.v >= minMinutes THEN d
    ELSE Num(minMinutes)

\* C23 as stated: under every configured minimum, the minutes issuance computes,
\* returns and embeds in the redirect target are max(configuredMinimumMinutes,
\* requestedMinutes), with a missing or non-numeric displayMinutes treated as the
\* minimum.
C23_DurationFloor ==
    \A h \in Handlers :
        LET m == hs[h]
            e == ExpectedMinutes(m.body.displayMinutes)
        IN  m.kind = "create" =>
                /\ m.pc \in {"createLink", "created"} => m.minutes = e
                /\ Issued(m) =>
                    /\ m.resp.minutes = e
                    /\ links[m.resp.url].redirect.minutes = e

\* The last remote call a handler has made.
LastCall(m) == m.calls[Len(m.calls)]

\* C24: the link-inspection step of a verify call calls getLink with the link id of
\* the Session Record of its ref; when the record has no order id and getLink
\* returns one, the step stores that order id in the record, keeps the record's
\* link id and creation time, leaves every other record as it was, and the call
\* goes on to retrieve that order, without searching.
C24_WriteBack ==
    [][\A h \in Handlers :
        (hs[h].pc = "getLink" /\ hs'[h].pc # "getLink") =>
            LET ref == hs[h].query.ref
                c == LastCall(hs'[h])
            IN  /\ c.api = "getLink" /\ c.arg = sessions[ref].linkId
                /\ Len(hs'[h].calls) = 1
                /\ (c.out # 0 /\ sessions[ref].orderId = 0) =>
                    /\ c.out = links[sessions[ref].linkId].orderId
                    /\ sessions'[ref].present
                    /\ sessions'[ref].orderId = c.out
                    /\ sessions'[ref].linkId = sessions[ref].linkId
                    /\ sessions'[ref].at = sessions[ref].at
                    /\ \A t \in 1..OldTok : t # ref => sessions'[t] = sessions[t]
                    /\ hs'[h].oid = c.out
                    /\ hs'[h].pc = "retrieveOrder"]_vars

\* C24 witness: a verify call that found a link id and no order id in the record
\* has the order id from getLink; the record now holds it next to its link id and
\* time, and the call is about to retrieve that order.
C24_Witness ==
    \E h \in Handlers :
        LET m == hs[h] IN
        /\ m.kind = "verify" /\ m.pc = "retrieveOrder"
        /\ m.seen = 0 /\ LinkGave(m)
        /\ m.oid = m.calls[1].out
        /\ sessions[m.query.ref].orderId = m.oid
        /\ sessions[m.query.ref].linkId = m.calls[1].arg
        /\ sessions[m.query.ref].at # 0

\* A step taken by the verify call of handler h.
VerifyStep(h) ==
    /\ hs'[h].kind = "verify"
    /\ hs[h].kind # "verify" \/ hs'[h].pc # hs[h].pc \/ hs'[h].calls # hs[h].calls

\* C25: a step of a verify call changes nothing at the processor and mints no
\* token; the calls of a verify call are reads (getLink, listLocations,
\* searchOrders, retrieveOrder, retrievePayment), never createLink or an update;
\* the step adds no key to the Reference Store and removes none; and if it changes
\* a record, that is the record of the call's own ref, which had no order id and
\* now has one, its link id and creation time as before.
C25_VerifyEnrichOnly ==
    [][\A h \in Handlers :
        VerifyStep(h) =>
            /\ orders' = orders /\ links' = links /\ minted' = minted
            /\ \A i \in 1..Len(hs'[h].calls) :
                    hs'[h].calls[i].api \in
                        {"getLink", "listLocations", "searchOrders", "retrieveOrder",
                         "retrievePayment"}
            /\ \A t \in 1..OldTok :
                    /\ sessions'[t].present = sessions[t].present
                    /\ sessions'[t] # sessions[t] =>
                        /\ t = hs'[h].query.ref
                        /\ sessions[t].orderId = 0
                        /\ sessions'[t].orderId # 0
                        /\ sessions'[t].linkId = sessions[t].linkId
                        /\ sessions'[t].at = sessions[t].at]_vars

\* C25 witness: verify by a token that has no Session Record found the token's
\* order through the search and answered with it; the store still has no record
\* for the token, while another token's record is in the store.
C25_Witness ==
    \E h \in Handlers :
        /\ Verified(hs[h])
        /\ hs[h].query = [ref |-> OldTok, orderId |-> 0]
        /\ hs[h].matches # <<>>
        /\ hs[h].resp.orderId = hs[h].matches[1]
        /\ ~sessions[OldTok].present
        /\ \E t \in Tokens : sessions[t].present

\* The updatePaymentLink call of an issuance of version 3.0 failed.
UpdateFailed(m) ==
    \E i \in 1..Len(m.calls) : m.calls[i].api = "updateLink" /\ ~m.calls[i].ok

\* C26: in the variant that updates the redirect after creation, the Session Record
\* is in the store before updateLinkRedirect is called, the call is made at most
\* once, and an issuance whose update failed answers {url, orderId, ref} with
\* HTTP 200, not CREATE_LINK_FAILED, with the record of its token holding the link
\* id and the order id of the response.
C26_UpdateBestEffort ==
    \A h \in Handlers :
        LET m == hs[h] IN
        m.kind = "create30" =>
            /\ m.pc = "updateLink30" =>
                /\ sessions[m.ref].present
                /\ sessions[m.ref].linkId = m.result.linkId
            /\ Cardinality({i \in 1..Len(m.calls) : m.calls[i].api = "updateLink"}) <= 1
            /\ (m.pc = "done" /\ UpdateFailed(m)) =>
                /\ m.resp = [NoResp EXCEPT !.status = 200, !.url = m.result.linkId,
                                !.orderId = m.result.orderId, !.ref = m.ref]
                /\ m.resp.url # 0 /\ m.resp.ref \in Tokens
                /\ sessions[m.ref].present
                /\ sessions[m.ref].linkId = m.resp.url
                /\ sessions[m.ref].orderId = m.resp.orderId

\* C26 witness: issuance has answered with url, order id and ref after its redirect
\* update failed; the link keeps the redirect it was created with.
C26_Witness ==
    \E h \in Handlers :
        /\ hs[h].kind = "create30" /\ hs[h].pc = "done"
        /\ UpdateFailed(hs[h])
        /\ hs[h].resp.url # 0 /\ hs[h].resp.orderId # 0
        /\ sessions[hs[h].resp.ref].linkId = hs[h].resp.url
        /\ links[hs[h].resp.url].redirect = NoRedirect

\* C29: the price of every redirect target is the charge bound to its link: for
\* a handler about to call createLink, and for every link at the processor, the
\* redirect price times 100 is the amount in cents of the createLink call and of
\* the order's line item, and it is at least the minimum price; this holds for
\* every request body, those with different subtotal and totalPrice included.
C29_RedirectPrice ==
    /\ \A h \in Handlers :
        LET m == hs[h] IN
        (m.kind = "create" /\ m.pc \in {"createLink", "created"}) =>
            /\ RoundCents(redirectOf(m).price) = createBody(m).amount
            /\ CentsToPrice(createBody(m).amount) = redirectOf(m).price
            /\ \A i \in 1..Len(m.calls) :
                    m.calls[i].api = "createLink" =>
                        m.calls[i].arg = RoundCents(redirectOf(m).price)
    /\ \A l \in LinkIds :
        links[l].exists =>
            /\ IsFinite(links[l].redirect.price)
            /\ links[l].redirect.price.v = orders[links[l].orderId].amount * 10
            /\ links[l].redirect.price.v >= MIN_PRICE * MILLS

\* C29 witness: a link issued for subtotal = 300 and totalPrice = 50 carries the
\* price 300 in its redirect and 30000 cents in its order.
C29_Witness ==
    \E h \in Handlers :
        /\ Issued(hs[h])
        /\ hs[h].body.subtotal = Dollars(300)
        /\ hs[h].body.totalPrice = Dollars(50)
        /\ links[hs[h].resp.url].redirect.price = Dollars(300)
        /\ orders[links[hs[h].resp.url].orderId].amount = 300 * 100

\* The remote calls of the link-inspection and search stages.
LookupCalls(m) ==
    {i \in 1..Len(m.calls) :
        m.calls[i].api \in {"getLink", "listLocations", "searchOrders"}}

\* C30: the step in which issuance answers with a token and an order id leaves that
\* order id in the token's Session Record; no later step changes it; a verify call
\* by that token alone that begins right after the answer, or at any later time,
\* finds that order id in the cache; and a verify call by a token alone that found
\* an order id in the cache makes no getLink, listLocations or searchOrders call,
\* retrieves exactly that order, and answers with that order id whenever it
\* answers with one (never ORDER_NOT_FOUND).
C30_RoundTrip ==
    [][\A h \in Handlers :
        LET m == hs'[h] IN
        /\ (Issued(m) /\ hs[h].pc = "created" /\ m.resp.orderId # 0) =>
                sessions'[m.resp.ref].orderId = m.resp.orderId
        /\ \A t \in Tokens :
                sessions[t].orderId # 0 => sessions'[t].orderId = sessions[t].orderId
        /\ (m.kind = "verify" /\ hs[h].kind # "verify" /\ m.query.orderId = 0
                /\ m.query.ref \in Tokens) =>
                    /\ m.seen = sessions[m.query.ref].orderId
                    /\ m.issuedOid # 0 => m.seen = m.issuedOid
        /\ (m.kind = "verify" /\ m.query.orderId = 0 /\ m.seen # 0) =>
                /\ LookupCalls(m) = {}
                /\ m.oid = m.seen
                /\ \A i \in 1..Len(m.calls) :
                        m.calls[i].api = "retrieveOrder" => m.calls[i].arg = m.seen
                /\ m.pc = "done" =>
                    /\ Made(m, "retrieveOrder")
                    /\ m.resp.error # "ORDER_NOT_FOUND"
                    /\ m.resp.error # "VERIFY_EXCEPTION" => m.resp.orderId = m.seen]_vars

\* C30 witness: issuance answered with a token and an order id, and the verify call
\* by that token that began in the next step has answered with that order id after
\* one retrieveOrder call (and a payment lookup at most), nothing else.
C30_Witness ==
    \E h \in Handlers :
        /\ Verified(hs[h])
        /\ hs[h].query.orderId = 0 /\ hs[h].query.ref \in Tokens
        /\ hs[h].issuedOid # 0
        /\ hs[h].resp.orderId = hs[h].issuedOid
        /\ LookupCalls(hs[h]) = {}
        /\ Made(hs[h], "retrieveOrder")
        /\ sessions[hs[h].query.ref].orderId = hs[h].issuedOid

\* The order id that the remote calls cs recovered through getLink (0: none).
RecoveredBy(cs) ==
    IF \E i \in 1..Len(cs) : cs[i].api = "getLink" /\ cs[i].out # 0
    THEN cs[CHOOSE i \in 1..Len(cs) : cs[i].api = "getLink" /\ cs[i].out # 0].out
    ELSE 0

\* C31: the step in which a verify call recovers an order id through getLink leaves
\* that order id in the token's Session Record; no later step changes it; a verify
\* call by that token alone that begins afterwards finds it in the cache, does not
\* go to link inspection and makes no getLink call, and works with that order id;
\* in particular the call that directly follows the recovering call does so.
C31_EnrichmentReused ==
    [][\A h \in Handlers :
        LET m == hs'[h] IN
        /\ (hs[h].pc = "getLink" /\ m.pc # "getLink" /\ LastCall(m).out # 0) =>
                sessions'[m.query.ref].orderId = LastCall(m).out
        /\ \A t \in 1..OldTok :
                sessions[t].orderId # 0 => sessions'[t].orderId = sessions[t].orderId
        /\ (m.kind = "verify" /\ hs[h].kind # "verify" /\ m.query.orderId = 0
                /\ m.query.ref # 0) =>
                    /\ m.seen = sessions[m.query.ref].orderId
                    /\ m.seen # 0 => m.pc = "retrieveOrder"
        /\ (m.kind = "verify" /\ m.query.orderId = 0 /\ m.seen # 0) =>
                /\ ~Made(m, "getLink")
                /\ m.oid = m.seen
        /\ (m.kind = "verify" /\ m.query.orderId = 0 /\ RecoveredBy(m.beforeCalls) # 0) =>
                /\ m.seen = RecoveredBy(m.beforeCalls)
                /\ ~Made(m, "getLink")]_vars

\* C31 witness: a verify call by a token alone recovered the order id through
\* getLink, and the next call of the same query has answered with that order id
\* from the cache, without a getLink call.
C31_Witness ==
    \E h \in Handlers :
        /\ Verified(hs[h])
        /\ hs[h].query.orderId = 0 /\ hs[h].query.ref \in Tokens
        /\ RecoveredBy(hs[h].beforeCalls) # 0
        /\ hs[h].seen = RecoveredBy(hs[h].beforeCalls)
        /\ sessions[hs[h].query.ref].orderId = hs[h].seen
        /\ ~Made(hs[h], "getLink")
        /\ Made(hs[h], "retrieveOrder")
        /\ hs[h].resp.orderId = hs[h].seen

\* Handler h takes the step: it was in flight and its record changes.
Acts(h) == InFlight(h) /\ hs'[h] # hs[h]

\* C32: in every step, under every interleaving of the handlers of the three
\* routes, a Session Record that changes is the record of the token of the handler
\* that takes the step, which is an issuance handler that minted that token or a
\* verify handler called with it (never a debug handler); and a record that is
\* present stays present.
C32_TokenIsolation ==
    [][\A t \in 1..OldTok :
        /\ sessions[t].present => sessions'[t].present
        /\ sessions'[t] # sessions[t] =>
            \E h \in Handlers :
                /\ Acts(h)
                /\ \/ hs[h].kind = "create" /\ hs[h].ref = t
                   \/ hs[h].kind = "verify" /\ hs[h].query.ref = t]_vars

\* C32 witness: two tokens have Session Records; a verify call for the first has
\* just written the recovered order id into its record while a debug call for the
\* other token is in flight, and the other token's record still has no order id.
C32_Witness ==
    \E h, k \in Handlers :
        /\ hs[h].kind = "verify" /\ hs[h].query.ref = 1
        /\ RecoveredBy(hs[h].calls) # 0
        /\ sessions[1].orderId = RecoveredBy(hs[h].calls)
        /\ hs[k].kind = "debug" /\ hs[k].query.ref = 2 /\ InFlight(k)
        /\ sessions[2].present /\ sessions[2].orderId = 0 /\ sessions[2].linkId # 0

\* The order carrying token t is at the expected location (or none is configured)
\* and it, or its first tender's payment, is COMPLETED.
PaidAtExpected(t) ==
    LET o == OrderByRef(t) IN
    /\ o # 0
    /\ ~LocationMismatch(orders[o].loc)
    /\ orders[o].state = "COMPLETED" \/ orders[o].pay = "COMPLETED"

\* One of the lookup stages can find the order of token t: the cache holds its id,
\* the processor reports it on the cached link, or the order is inside the search
\* window.
Resolvable(t) ==
    \/ sessions[t].orderId # 0
    \/ sessions[t].linkId # 0 /\ links[sessions[t].linkId].visible
    \/ OrderByRef(t) # 0 /\ InWindow(orders[OrderByRef(t)].age)

\* No remote call on record has failed.
NoFailing == \A h \in Handlers : \A i \in 1..Len(hs[h].calls) : hs[h].calls[i].ok

\* A verify call by token t alone has answered.
Answered(m, t) == Verified(m) /\ m.query.ref = t /\ m.query.orderId = 0

OkAnswer(t) == \E h \in Handlers : Answered(hs[h], t) /\ hs[h].resp.ok = "true"
AnswersOk(t) == \A h \in Handlers : Answered(hs[h], t) => hs[h].resp.ok = "true"

\* C33 as stated: for every token, if from some point on its order is paid at the
\* expected location and no remote call fails, then (the storefront polling for
\* ever) verify calls by that token answer ok:true again and again, and from some
\* point on every one of them does.
C33_EventuallyVerified ==
    \A t \in Refs \ {0} :
        (<>[]NoFailing /\ <>[]PaidAtExpected(t)) =>
            ([]<>OkAnswer(t) /\ <>[]AnswersOk(t))

\* C33 amended: the same, for an order that from some point on stays within reach
\* of a lookup stage (its id cached, reported on the cached link, or the order
\* inside the 24-hour search window).
C33_EventuallyVerifiedInReach ==
    \A t \in Refs \ {0} :
        (<>[]NoFailing /\ <>[](PaidAtExpected(t) /\ Resolvable(t))) =>
            ([]<>OkAnswer(t) /\ <>[]AnswersOk(t))

\* C33 witness: the order of the old token, inside the search window and not in the
\* cache, is paid, and a poll that found it by search has answered ok:true.
C33_Witness ==
    \E h \in Handlers :
        /\ Answered(hs[h], OldTok) /\ hs[h].resp.ok = "true"
        /\ PaidAtExpected(OldTok) /\ Resolvable(OldTok)
        /\ sessions[OldTok].orderId = 0
        /\ Made(hs[h], "searchOrders") /\ NoFailing

\* A response without its matchesRef field.
SansMatchesRef(r) == [r EXCEPT !.matchesRef = "-"]

\* C34: when two consecutive verify calls carry the same orderId and different refs
\* (none, the order's own token, a token of another order), and between them the
\* processor's state did not change and no remote call failed, the two responses
\* are equal in every field except matchesRef: the same ok, state, orderId, error
\* and payment fields.
C34_RefIndependent ==
    \A h \in Handlers :
        (Verified(hs[h]) /\ hs[h].other # NoResp /\ hs[h].steady) =>
            /\ hs[h].otherQuery.orderId = hs[h].query.orderId
            /\ hs[h].otherQuery.ref # hs[h].query.ref
            /\ SansMatchesRef(hs[h].resp) = SansMatchesRef(hs[h].other)

\* C34 witness: an order is verified by its id with its own token (ok:true,
\* matchesRef:true) and then by the same id with another ref: the answer is again
\* ok:true with the same state and orderId, and matchesRef:false.
C34_Witness ==
    \E h \in Handlers :
        /\ Verified(hs[h]) /\ hs[h].steady
        /\ hs[h].other.ok = "true" /\ hs[h].other.matchesRef = "true"
        /\ hs[h].otherQuery.ref # hs[h].query.ref
        /\ hs[h].resp.ok = "true" /\ hs[h].resp.matchesRef = "false"
        /\ hs[h].resp.orderId = hs[h].query.orderId
        /\ hs[h].resp.orderId = hs[h].other.orderId
        /\ hs[h].resp.state = hs[h].other.state

====
